---- MODULE Spec2Model ----
(***************************************************************************)
(* Model of the MoviePilot plugins of this repository:                     *)
(*   - Lkwang88 / CloudStrmCompanionLkwang88: strm pointer synchronisation *)
(*   - mediaserverrefresh / mediaserverrefresh88: debounced refresh        *)
(*   - wd99: webhook notification with dedup cache and series aggregation  *)
(* Paths and messages are strings; Python's str methods are modelled by    *)
(* the operators of the first section.                                     *)
(***************************************************************************)
EXTENDS Integers, Sequences, FiniteSets, TLC

VARIABLES
    \* wd99._merge_continuous_episodes, as a function under test
    mergeIn, mergeOut,
    \* Lkwang88 / CloudStrmCompanionLkwang88
    conf,            \* the configuration read by init_plugin
    disk,            \* the pointer tree: path -> file content
    _refresh_queue,  \* set of directories awaiting a refresh
    _medias,         \* notification batcher: key -> entry
    pushes,          \* the task-push POSTs issued, in order
    last,            \* what the latest __handle_file call did
    ncalls,          \* number of __handle_file calls so far
    \* mediaserverrefresh / mediaserverrefresh88
    dnow,            \* the clock, in seconds
    _delay,          \* the configured delay
    _pending_items,  \* list of queued items
    _timer,          \* the timer the plugin holds, 0 for None
    timers,          \* every threading.Timer created: id -> thread state
    _lock,           \* holder of the plugin lock, 0 when free
    refreshing,      \* the refresh() call between its append and its timer restart
    lastFlush,       \* the latest drain of the pending list
    requests,        \* the Library/Media/Updated calls issued, in order
    \* wd99
    wnow,               \* the clock, in seconds
    wconf,              \* the configuration read by init_plugin
    _webhook_msg_keys,  \* dedup cache: key -> expiry time
    _pending_messages,  \* series buffers, in insertion order
    _aggregate_timers,  \* series id -> timer
    wtimers,            \* every threading.Timer created: id -> thread state
    aggregating,        \* the send() call between its append and its timer restart
    processing,         \* the send() calls inside _process_single_media_event
    notifications,      \* the post_message calls made, in order
    received,           \* the latest webhook event delivered, and how many so far
    touched,            \* key -> when a stop for it was last cached or refreshed
    arrivals,           \* series id -> latest arrival and its window
    stopped,            \* what the latest stop_service found and did
    \* Lkwang88: the threads around the global lock and the refresh-queue lock
    lock,               \* holder of the module's global lock, 0 when free
    _refresh_lock,      \* holder of the refresh-queue lock, 0 when free
    hpc,                \* file handler threads: the region each is in
    fpc,                \* the __process_refresh_queue job
    spc,                \* the send_msg job
    drains,             \* the batches taken by the flushes, in order
    adds,               \* every path added, with the number of drains before it
    refreshes,          \* the __refresh_emby_file calls: path and flush
    started,            \* events handed to handlers, jobs run, faults seen
    \* Lkwang88: the rule maps and the monitor-start thread
    monitor_confs,      \* the configured rule lines
    _strm_dir_conf,     \* the rule map, in key order: local_dir and strm_dir
    mpc,                \* init_plugin / __async_start_monitor: position, root, retries
    mounted,            \* the source roots that exist now
    _observer,          \* the observers created, in order
    mlog,               \* roots skipped and scanned; roots seen up, seen down
    \* Lkwang88 / CloudStrmCompanionLkwang88: the notification sweep
    mnow,               \* the clock of the sweep
    reports,            \* the send_transfer_message calls made, in order
    recorded,           \* every episode recorded by __collect_notify_info
    \* autoclean: the refresher with TMDB dedup
    aconf,              \* the configuration init_plugin has read
    _refreshed_tmdb_ids,
    apc,                \* the threads running refresh(), by event
    alog                \* the events handled and the refresh calls made

mergeVars == <<mergeIn, mergeOut>>
syncVars == <<conf, disk, _refresh_queue, _medias, pushes, last, ncalls>>
debVars == <<dnow, _delay, _pending_items, _timer, timers, _lock, refreshing, lastFlush, requests>>
webVars == <<wnow, wconf, _webhook_msg_keys, _pending_messages, _aggregate_timers, wtimers,
             aggregating, processing, notifications, received, touched, arrivals, stopped>>
thrVars == <<lock, _refresh_lock, hpc, fpc, spc, drains, adds, refreshes, started>>
monVars == <<monitor_confs, _strm_dir_conf, mpc, mounted, _observer, mlog>>
sweepVars == <<mnow, reports, recorded>>
autoVars == <<aconf, _refreshed_tmdb_ids, apc, alog>>
vars == <<mergeVars, syncVars, debVars, webVars, thrVars, monVars, sweepVars, autoVars>>

\* what the steps of one plugin leave alone
mergeOthers == <<syncVars, debVars, webVars, thrVars, monVars, sweepVars, autoVars>>
syncOthers == <<mergeVars, debVars, webVars, thrVars, monVars, sweepVars, autoVars>>
debOthers == <<mergeVars, syncVars, webVars, thrVars, monVars, sweepVars, autoVars>>
webOthers == <<mergeVars, syncVars, debVars, thrVars, monVars, sweepVars, autoVars>>
thrOthers == <<mergeVars, debVars, webVars, monVars, sweepVars, autoVars, conf, last, ncalls>>
monOthers == <<mergeVars, syncVars, debVars, webVars, thrVars, sweepVars, autoVars>>
sweepOthers == <<mergeVars, debVars, webVars, monVars, autoVars, disk, _refresh_queue, pushes, last,
                 ncalls, lock, _refresh_lock, hpc, fpc, drains, adds, refreshes, started>>

\* Python None, for a string and for a number
None == "None"
NoInt == -1

\* a plugin that is constructed and not exercised
MergeIdle == mergeIn = <<>> /\ mergeOut = None
SyncIdle ==
    /\ conf = None
    /\ disk = <<>>
    /\ _refresh_queue = {}
    /\ _medias = <<>>
    /\ pushes = <<>>
    /\ last = None
    /\ ncalls = 0
DebounceIdle ==
    /\ dnow = 0
    /\ _delay = 0
    /\ _pending_items = <<>>
    /\ _timer = 0
    /\ timers = <<>>
    /\ _lock = 0
    /\ refreshing = None
    /\ lastFlush = None
    /\ requests = <<>>
WebhookIdle ==
    /\ wnow = 0
    /\ wconf = None
    /\ _webhook_msg_keys = <<>>
    /\ _pending_messages = <<>>
    /\ _aggregate_timers = <<>>
    /\ wtimers = <<>>
    /\ aggregating = None
    /\ processing = <<>>
    /\ notifications = <<>>
    /\ received = None
    /\ touched = <<>>
    /\ arrivals = <<>>
    /\ stopped = None
ThreadsIdle ==
    /\ lock = 0
    /\ _refresh_lock = 0
    /\ hpc = <<>>
    /\ fpc = None
    /\ spc = None
    /\ drains = <<>>
    /\ adds = {}
    /\ refreshes = <<>>
    /\ started = None
AutoIdle ==
    /\ aconf = None
    /\ _refreshed_tmdb_ids = {}
    /\ apc = <<>>
    /\ alog = None
SweepIdle ==
    /\ mnow = 0
    /\ reports = <<>>
    /\ recorded = {}
MonitorIdle ==
    /\ monitor_confs = <<>>
    /\ _strm_dir_conf = <<>>
    /\ mpc = None
    /\ mounted = {}
    /\ _observer = <<>>
    /\ mlog = None

(***************************************************************************)
(* Python str / list helpers                                               *)
(***************************************************************************)
StartsWith(s, p) == Len(p) <= Len(s) /\ SubSeq(s, 1, Len(p)) = p

\* s[i:] (1-based i)
From(s, i) == SubSeq(s, i, Len(s))

\* sub in s
Contains(s, sub) ==
    \E i \in 1..(Len(s) - Len(sub) + 1) : SubSeq(s, i, i + Len(sub) - 1) = sub

\* s.replace(old, new, 1): only the first occurrence (old is not empty)
RECURSIVE ReplaceFirst(_, _, _)
ReplaceFirst(s, old, new) ==
    IF Len(s) < Len(old) THEN s
    ELSE IF StartsWith(s, old) THEN new \o From(s, Len(old) + 1)
    ELSE SubSeq(s, 1, 1) \o ReplaceFirst(Tail(s), old, new)

\* s.replace(old, new): every non-overlapping occurrence, left to right
RECURSIVE Replace(_, _, _)
Replace(s, old, new) ==
    IF Len(s) < Len(old) THEN s
    ELSE IF StartsWith(s, old) THEN new \o Replace(From(s, Len(old) + 1), old, new)
    ELSE SubSeq(s, 1, 1) \o Replace(Tail(s), old, new)

\* the index of the last occurrence of the character c in s, 0 when absent
RECURSIVE LastIndex(_, _)
LastIndex(s, c) ==
    IF s = "" THEN 0
    ELSE IF SubSeq(s, Len(s), Len(s)) = c THEN Len(s)
    ELSE LastIndex(SubSeq(s, 1, Len(s) - 1), c)

\* str(Path(p).parent) and Path(p).name of an absolute path
PathParent(p) ==
    LET i == LastIndex(p, "/")
    IN  IF i = 0 THEN "." ELSE IF i = 1 THEN "/" ELSE SubSeq(p, 1, i - 1)

PathName(p) == From(p, LastIndex(p, "/") + 1)

\* Path(p).suffix: from the last dot of the name, "" when the name has no dot
\* or only a leading dot
PathSuffix(p) ==
    LET n == PathName(p)
        i == LastIndex(n, ".")
    IN  IF i <= 1 \/ i = Len(n) THEN "" ELSE From(n, i)

\* Path(p).stem and os.path.splitext(name)[0]
PathStem(p) ==
    LET n == PathName(p)
        i == LastIndex(n, ".")
    IN  IF i <= 1 \/ i = Len(n) THEN n ELSE SubSeq(n, 1, i - 1)

Splitext0(n) ==
    LET i == LastIndex(n, ".")
    IN  IF i <= 1 THEN n ELSE SubSeq(n, 1, i - 1)

\* os.path.join(parent, name)
PathJoin(parent, name) ==
    IF parent = "/" THEN "/" \o name ELSE parent \o "/" \o name

\* str.lower(), over the letters that occur upper-case in the model's paths
LowerChar(c) ==
    CASE c = "M" -> "m" [] c = "K" -> "k" [] c = "V" -> "v" [] c = "P" -> "p"
      [] c = "S" -> "s" [] c = "E" -> "e" [] c = "X" -> "x" [] c = "Z" -> "z"
      [] OTHER -> c

RECURSIVE Lower(_)
Lower(s) == IF s = "" THEN "" ELSE LowerChar(SubSeq(s, 1, 1)) \o Lower(Tail(s))

\* urllib.parse.quote(s, safe=''): letters, digits and _.-~ are kept, every
\* other character of the model's paths is percent-encoded
QuoteChar(c) ==
    CASE c = "/" -> "%2F" [] c = "\\" -> "%5C" [] c = ":" -> "%3A"
      [] c = "{" -> "%7B" [] c = "}" -> "%7D" [] c = " " -> "%20"
      [] c = "[" -> "%5B" [] c = "]" -> "%5D"
      [] OTHER -> c

RECURSIVE Quote(_)
Quote(s) == IF s = "" THEN "" ELSE QuoteChar(SubSeq(s, 1, 1)) \o Quote(Tail(s))

\* str(n).zfill(2) for n >= 0
Zfill2(n) == IF n < 10 THEN "0" \o ToString(n) ELSE ToString(n)

Min(S) == CHOOSE x \in S : \A y \in S : x <= y

\* sorted(list(set(...)))
RECURSIVE SortedSeq(_)
SortedSeq(S) == IF S = {} THEN <<>> ELSE <<Min(S)>> \o SortedSeq(S \ {Min(S)})

\* " ".join(parts) / ", ".join(parts)
RECURSIVE Join(_, _)
Join(sep, parts) ==
    IF parts = <<>> THEN ""
    ELSE IF Len(parts) = 1 THEN parts[1]
    ELSE parts[1] \o sep \o Join(sep, Tail(parts))

(***************************************************************************)
(* wd99._merge_continuous_episodes                                          *)
(* An event is a record [season, episode]; a field is NoInt when neither    *)
(* the Item json nor the event attribute carries it.                       *)
(***************************************************************************)
\* season_episodes: the dict built by the first loop (lines 617-633)
SeasonKeys(events) ==
    {events[i].season : i \in {j \in 1..Len(events) :
        events[j].season # NoInt /\ events[j].episode # NoInt}}

SeasonEpisodes(events, s) ==
    {events[i].episode : i \in {j \in 1..Len(events) :
        events[j].season = s /\ events[j].episode # NoInt}}

\* a plausible slip: the end of a run is never written
RangeStrStartOnly(start, end) == "E" \o Zfill2(start)

RangeStr(start, end) ==
    IF start # end THEN "E" \o Zfill2(start) \o "-E" \o Zfill2(end)
    ELSE "E" \o Zfill2(start)

\* the scan of lines 643-649 over the sorted episodes eps, from index i,
\* with the open run [start, end] and the ranges closed so far
RECURSIVE ScanRanges(_, _, _, _, _)
ScanRanges(eps, i, start, end, ranges) ==
    IF i > Len(eps) THEN Append(ranges, RangeStr(start, end))
    ELSE IF eps[i] = end + 1 THEN ScanRanges(eps, i + 1, start, eps[i], ranges)
    ELSE ScanRanges(eps, i + 1, eps[i], eps[i], Append(ranges, RangeStr(start, end)))

SeasonStr(events, s) ==
    LET eps == SortedSeq(SeasonEpisodes(events, s))
    IN  "S" \o Zfill2(s) \o " " \o Join(" ", ScanRanges(eps, 2, eps[1], eps[1], <<>>))

_merge_continuous_episodes(events) ==
    LET seasons == SortedSeq(SeasonKeys(events))
    IN  Join(", ", [k \in 1..Len(seasons) |-> SeasonStr(events, seasons[k])])

(***************************************************************************)
(* Lkwang88 / CloudStrmCompanionLkwang88: the synchronisation engine        *)
(***************************************************************************)
MaxHandles == 2

\* settings.RMT_MEDIAEXT of the host and the extension lists of the form
RMT_MEDIAEXT == {".mp4", ".mkv", ".ts", ".iso", ".avi", ".mov", ".strm"}
SubtitleExt == {".srt", ".ass", ".ssa", ".sub"}

\* the monitored tree as it is on the source mount
SourceFiles ==
    {"/src/ShowX/S01E01.mkv", "/src/ShowX/S01E01.nfo", "/src/ShowX/S01E01.srt",
     "/src/ShowX/S01E01-thumb.jpg", "/src/ShowX/S01E02.MKV", "/src/Film/src.mkv"}

\* a path reported by the watcher whose file is gone when it is handled
VanishedFiles == {"/src/ShowX/S01E03.mkv"}

FileData(src) == "data:" \o src

\* the rule lines source#pointer#upstream#template of the configuration
Rules ==
    {[local_dir |-> "/src", strm_dir |-> "/ptr", cloud_dir |-> "/cloud",
      format_str |-> "{cloud_file}"],
     [local_dir |-> "/src", strm_dir |-> "/ptr", cloud_dir |-> "Z:\\cloud",
      format_str |-> "http://emby/{cloud_file}"],
     [local_dir |-> "/src", strm_dir |-> "/ptr", cloud_dir |-> "/cloud",
      format_str |-> "{local_file}"],
     [local_dir |-> "/src", strm_dir |-> "/ptr", cloud_dir |-> "/cloud",
      format_str |-> "static"]}

\* the switches of the form, _path_replacements being the ordered
\* source -> target pairs
Switches(cover, notify, refresh_emby, mediaservers, url, uriencode, copy_files, copy_subtitles, path_replacements) ==
    [cover |-> cover, notify |-> notify, refresh_emby |-> refresh_emby,
     mediaservers |-> mediaservers, url |-> url, uriencode |-> uriencode,
     copy_files |-> copy_files, copy_subtitles |-> copy_subtitles,
     path_replacements |-> path_replacements,
     rmt_mediaext |-> RMT_MEDIAEXT,
     other_mediaext |-> {".nfo", ".jpg", ".png", ".json"}]

SwitchSets ==
    {Switches(FALSE, FALSE, FALSE, {}, None, FALSE, FALSE, FALSE, <<>>),
     Switches(FALSE, TRUE, TRUE, {"emby"}, "http://push", FALSE, TRUE, TRUE, <<>>),
     Switches(TRUE, TRUE, TRUE, {"emby"}, "http://push", FALSE, TRUE, TRUE, <<>>),
     Switches(FALSE, TRUE, TRUE, {"emby"}, "http://push", TRUE, FALSE, TRUE,
              <<<<"/cloud", "/mnt/cloud">>>>),
     Switches(FALSE, FALSE, TRUE, {"emby"}, None, FALSE, TRUE, FALSE, <<>>),
     Switches(FALSE, FALSE, TRUE, {}, None, FALSE, FALSE, FALSE, <<>>),
     Switches(FALSE, TRUE, FALSE, {"emby"}, None, FALSE, FALSE, FALSE,
              <<<<"/cloud", "/mnt/cloud">>>>),
     Switches(TRUE, FALSE, FALSE, {}, "http://push", TRUE, FALSE, FALSE, <<>>)}

Configs == {sw @@ [rule |-> r] : sw \in SwitchSets, r \in Rules}

\* _strm_dir_conf / _cloud_dir_conf / _format_conf .get(mon_path)
strm_dir_conf(mon_path) == conf.rule.strm_dir
cloud_dir_conf(mon_path) == conf.rule.cloud_dir
format_conf(mon_path) == conf.rule.format_str

\* __format_content
format_content(format_str, local_file, cloud_file, uriencode) ==
    IF Contains(format_str, "{local_file}")
    THEN Replace(format_str, "{local_file}", local_file)
    ELSE IF Contains(format_str, "{cloud_file}")
    THEN Replace(format_str, "{cloud_file}",
                 IF uriencode THEN Quote(cloud_file) ELSE Replace(cloud_file, "\\", "/"))
    ELSE None

\* the loop over _path_replacements.items()
RECURSIVE ApplyReplacements(_, _)
ApplyReplacements(content, reps) ==
    IF reps = <<>> THEN content
    ELSE ApplyReplacements(
            IF Contains(content, reps[1][1])
            THEN Replace(content, reps[1][1], reps[1][2]) ELSE content,
            Tail(reps))

\* the pointer file name: the extension replaced by .strm
StrmFilePath(strm_file) ==
    PathJoin(PathParent(strm_file), Splitext0(PathName(strm_file)) \o ".strm")

\* MetaInfoPath of the host, for the names of the model's tree
MetaInfoPath(path) ==
    LET stem == PathStem(path)
    IN  [cn_name |-> PathName(PathParent(path)),
         year |-> None,
         season |-> IF StartsWith(stem, "S01") THEN "S01" ELSE None,
         begin_episode |-> IF StartsWith(stem, "S01E01") THEN 1
                           ELSE IF StartsWith(stem, "S01E02") THEN 2 ELSE NoInt]

MediaKey(meta) ==
    meta.cn_name \o " (" \o meta.year \o ")" \o
    (IF meta.season # None THEN " " \o meta.season ELSE "")

\* __collect_notify_info / __collect_notify_meta
collect_notify_info(medias, strm_file) ==
    LET meta == MetaInfoPath(strm_file)
        key == MediaKey(meta)
        entry ==
            IF key \in DOMAIN medias
            THEN [medias[key] EXCEPT !.episodes =
                    IF meta.begin_episode # NoInt
                       /\ \A i \in 1..Len(@) : @[i] # meta.begin_episode
                    THEN Append(@, meta.begin_episode) ELSE @]
            ELSE [episodes |-> IF meta.begin_episode # NoInt
                               THEN <<meta.begin_episode>> ELSE <<>>,
                  type |-> IF meta.season # None THEN "tv" ELSE "movie"]
    IN  [k \in DOMAIN medias \cup {key} |-> IF k = key THEN entry ELSE medias[k]]

\* __add_to_refresh_queue
add_to_refresh_queue(queue, strm_file_path) == queue \cup {PathParent(strm_file_path)}

\* the state a call works on and returns
SyncState == [disk |-> disk, queue |-> _refresh_queue, medias |-> _medias, pushes |-> pushes]

\* a slip: the existence check of the pointer file always answers no
PointerNeverExists(d, strm_file_path) == FALSE

\* Path(strm_file_path).exists() on the pointer tree d
PointerExists(d, strm_file_path) == strm_file_path \in DOMAIN d

WriteFile(d, path, content) ==
    [p \in DOMAIN d \cup {path} |-> IF p = path THEN content ELSE d[p]]

\* __create_strm_file on state st; fault is the step that raises, if any:
\* "io" (makedirs / open), "push" (the task-push POST), "notify" (the metadata
\* collection). created is the value returned, outcome the way it returned.
create_strm_file(st, strm_file, strm_content, fault) ==
    LET strm_file_path == StrmFilePath(strm_file)
        content == ApplyReplacements(strm_content, conf.path_replacements)
        written == [st EXCEPT !.disk = WriteFile(@, strm_file_path, content)]
        truncated == [st EXCEPT !.disk = WriteFile(@, strm_file_path, "")]
        doPush == conf.url # None /\ PathSuffix(content) \in RMT_MEDIAEXT
        doNotify == conf.notify /\ PathSuffix(content) \in RMT_MEDIAEXT
        doQueue == conf.refresh_emby /\ conf.mediaservers # {}
        pushed == IF doPush THEN [written EXCEPT !.pushes = Append(@, content)]
                  ELSE written
        notified == IF doNotify
                    THEN [pushed EXCEPT !.medias = collect_notify_info(@, strm_file_path)]
                    ELSE pushed
        queued == IF doQueue
                  THEN [notified EXCEPT !.queue = add_to_refresh_queue(@, strm_file_path)]
                  ELSE notified
        ret(state, value, how) == state @@ [created |-> value, outcome |-> how]
    IN  IF PointerExists(st.disk, strm_file_path) /\ ~conf.cover
        THEN ret(st, FALSE, "skipped")
        ELSE IF fault = "io" THEN ret(st, FALSE, "io error")
        ELSE IF strm_content = None
        THEN (IF conf.path_replacements # <<>> THEN ret(st, FALSE, "no content")
              ELSE ret(truncated, FALSE, "no content"))
        ELSE IF doPush /\ fault = "push" THEN ret(written, FALSE, "push error")
        ELSE IF doNotify /\ fault = "notify" THEN ret(pushed, FALSE, "notify error")
        ELSE ret(queued, TRUE, "created")

\* fnmatch of a pattern of literal characters and "?" against the start of a name
RECURSIVE FnPrefix(_, _)
FnPrefix(pat, name) ==
    IF pat = "" THEN TRUE
    ELSE IF name = "" THEN FALSE
    ELSE /\ (SubSeq(pat, 1, 1) = "?" \/ SubSeq(pat, 1, 1) = SubSeq(name, 1, 1))
         /\ FnPrefix(Tail(pat), Tail(name))

\* Path(event_path).parent.glob(f"{pattern}.*") and the -thumb.jpg sibling
Sidecars(event_path) ==
    LET pattern == Replace(Replace(PathStem(event_path), "[", "?"), "]", "?")
        thumb == PathJoin(PathParent(event_path), PathStem(event_path) \o "-thumb.jpg")
    IN  {f \in SourceFiles : /\ PathParent(f) = PathParent(event_path)
                             /\ FnPrefix(pattern \o ".", PathName(f))}
        \cup ({thumb} \cap SourceFiles)

\* whether __handle_other_files copies the file
Copies(event_path) ==
    \/ /\ conf.copy_files
       /\ conf.other_mediaext # {}
       /\ Lower(PathSuffix(event_path)) \in conf.other_mediaext
    \/ /\ conf.copy_subtitles
       /\ Lower(PathSuffix(event_path)) \in SubtitleExt

\* a slip: only the first occurrence of the root is replaced
MapPathFirst(path, mon_path, dir) == ReplaceFirst(path, mon_path, dir)

\* str(event_path).replace(mon_path, strm_dir) of __handle_file
MapPath(path, mon_path, dir) == Replace(path, mon_path, dir)

\* __handle_other_files for every file of a set, on the pointer tree d
handle_other_files(d, files, mon_path) ==
    LET copied == {f \in files : Copies(f)}
        target(f) == MapPath(f, mon_path, strm_dir_conf(mon_path))
        targets == {target(f) : f \in copied}
    IN  [p \in DOMAIN d \cup targets |->
            IF p \in targets THEN FileData(CHOOSE f \in copied : target(f) = p)
            ELSE d[p]]

NoCall ==
    [event_path |-> None, mon_path |-> None, target_file |-> None,
     cloud_file |-> None, strm_content |-> None, existed |-> FALSE,
     media |-> FALSE, created |-> FALSE, outcome |-> "none"]

\* __handle_file(event_path, mon_path), the whole body under the global lock
HandleFile(event_path, mon_path, fault) ==
    LET cloud_dir == cloud_dir_conf(mon_path)
        strm_dir == strm_dir_conf(mon_path)
        format_str == format_conf(mon_path)
        target_file == MapPath(event_path, mon_path, strm_dir)
        cloud_file == MapPath(event_path, mon_path, cloud_dir)
        media == Lower(PathSuffix(event_path)) \in conf.rmt_mediaext
        strm_content == format_content(format_str, event_path, cloud_file, conf.uriencode)
        r == create_strm_file(SyncState, target_file, strm_content, fault)
        call == [event_path |-> event_path, mon_path |-> mon_path,
                 target_file |-> target_file, cloud_file |-> cloud_file,
                 strm_content |-> IF media THEN strm_content ELSE None,
                 existed |-> media /\ StrmFilePath(target_file) \in DOMAIN disk,
                 media |-> media,
                 created |-> media /\ r.created,
                 outcome |-> IF media THEN r.outcome ELSE "other file"]
    IN  /\ ncalls < MaxHandles
        /\ ncalls' = ncalls + 1
        /\ UNCHANGED conf
        /\ IF event_path \notin SourceFiles
           THEN /\ last' = [NoCall EXCEPT !.event_path = event_path,
                                          !.mon_path = mon_path, !.outcome = "gone"]
                /\ UNCHANGED <<disk, _refresh_queue, _medias, pushes>>
           ELSE /\ last' = call
                /\ IF media
                   THEN /\ disk' = IF r.created
                                   THEN handle_other_files(r.disk, Sidecars(event_path), mon_path)
                                   ELSE r.disk
                        /\ _refresh_queue' = r.queue
                        /\ _medias' = r.medias
                        /\ pushes' = r.pushes
                   ELSE /\ disk' = handle_other_files(disk, {event_path}, mon_path)
                        /\ UNCHANGED <<_refresh_queue, _medias, pushes>>

Faults == {"none", "io", "push", "notify"}

InitSync ==
    /\ conf \in Configs
    /\ disk = <<>>
    /\ _refresh_queue = {}
    /\ _medias = <<>>
    /\ pushes = <<>>
    /\ last = NoCall
    /\ ncalls = 0
    /\ MergeIdle
    /\ DebounceIdle
    /\ WebhookIdle
    /\ ThreadsIdle
    /\ MonitorIdle
    /\ SweepIdle
    /\ AutoIdle

NextSync ==
    \E event_path \in SourceFiles \cup VanishedFiles, fault \in Faults :
        /\ StartsWith(event_path, conf.rule.local_dir)
        /\ HandleFile(event_path, conf.rule.local_dir, fault)
        /\ UNCHANGED syncOthers

SpecSync == InitSync /\ [][NextSync]_vars

\* the pointer file of the latest call, and what the claims expect of it
LastPointer == StrmFilePath(last.target_file)
Remainder(path, root) == From(path, Len(root) + 1)
Raised(outcome) == outcome \in {"io error", "no content", "push error", "notify error"}

\* C1: with overwrite disabled, a pointer write that finds no file and raises
\* nowhere returns Created, and the same write repeated returns Skipped and
\* leaves the content of the pointer file as it was.
C1_Idempotence ==
    [][ /\ (ncalls' = ncalls + 1 /\ last'.media /\ ~last'.existed
              /\ last'.strm_content # None /\ ~Raised(last'.outcome))
           => last'.created
        /\ (ncalls' = ncalls + 1 /\ ~conf.cover /\ last.created /\ last'.media
              /\ last'.target_file = last.target_file
              /\ last'.strm_content = last.strm_content)
           => /\ ~last'.created
              /\ last'.outcome = "skipped"
              /\ StrmFilePath(last'.target_file) \in DOMAIN disk'
              /\ disk'[StrmFilePath(last'.target_file)]
                   = disk[StrmFilePath(last'.target_file)] ]_vars

C1_Witness ==
    /\ ncalls = 2
    /\ ~conf.cover
    /\ last.outcome = "skipped"
    /\ last.strm_content # None
    /\ disk[LastPointer] = ApplyReplacements(last.strm_content, conf.path_replacements)

\* C6: for every handled path under the rule's source root the pointer target
\* is pointer_root followed by the path without its source_root prefix, and
\* the upstream reference is upstream_root followed by the same remainder.
C6_PathMapping ==
    (last.outcome \notin {"none", "gone"} /\ StartsWith(last.event_path, last.mon_path)) =>
        /\ last.target_file
             = conf.rule.strm_dir \o Remainder(last.event_path, last.mon_path)
        /\ last.cloud_file
             = conf.rule.cloud_dir \o Remainder(last.event_path, last.mon_path)

\* C8: a media file at source_root/rel, handled under a {cloud_file} rule with
\* url-encoding off and no pointer yet (no path replacement configured, no
\* step raising), gets the pointer pointer_root/rel with the extension .strm,
\* holding upstream_root/rel with backslashes as forward slashes, and with
\* refresh enabled and servers configured the pointer's directory is queued.
C8_EndToEndCreation ==
    (/\ last.media /\ ~last.existed /\ ~Raised(last.outcome)
     /\ conf.rule.format_str = "{cloud_file}" /\ ~conf.uriencode
     /\ conf.path_replacements = <<>>)
    => LET rel == Remainder(last.event_path, last.mon_path)
           pointer == StrmFilePath(conf.rule.strm_dir \o rel)
       IN  /\ last.created
           /\ pointer \in DOMAIN disk
           /\ disk[pointer] = Replace(conf.rule.cloud_dir \o rel, "\\", "/")
           /\ (conf.refresh_emby /\ conf.mediaservers # {})
                => PathParent(pointer) \in _refresh_queue

\* the scenario of the specification: /src/ShowX/S01E01.mkv under the rule
\* /src#/ptr#/cloud#{cloud_file}
C8_Witness ==
    /\ last.event_path = "/src/ShowX/S01E01.mkv"
    /\ conf.rule.format_str = "{cloud_file}" /\ conf.rule.cloud_dir = "/cloud"
    /\ last.created
    /\ disk["/ptr/ShowX/S01E01.strm"] = "/cloud/ShowX/S01E01.mkv"
    /\ "/ptr/ShowX" \in _refresh_queue

DebounceDelay == 2
MaxRefreshEvents == 3
MaxTime == 4

\* transferinfo.target_diritem.path of the events
TargetDirs == {"/lib/ShowA/S01", "/lib/ShowA/S02", "/lib/ShowB/S01"}

\* _path_mapping, in configuration order
PathMapping == <<<<"/lib", "/data/lib">>>>

\* the services MediaServerHelper can return as active, with their types
Emby == [name |-> "emby", type |-> "emby"]
Plex == [name |-> "plex", type |-> "plex"]
ServiceSets == {<<>>, <<Emby>>, <<Plex, Emby>>}

\* float(self._delay), at least one second (lines 222-226)
delay_val(d) == IF d < 1 THEN 1 ELSE d

\* _convert_path
RECURSIVE convert_path_from(_, _)
convert_path_from(local_path, mapping) ==
    IF mapping = <<>> THEN local_path
    ELSE IF StartsWith(local_path, mapping[1][1])
    THEN ReplaceFirst(local_path, mapping[1][1], mapping[1][2])
    ELSE convert_path_from(local_path, Tail(mapping))

_convert_path(local_path) == convert_path_from(local_path, PathMapping)

NoTimer == 0
Free == 0
EventThread == -1

\* Timer.is_alive(): the thread has been started and run() has not returned
is_alive(id) == timers[id].state \in {"waiting", "calling", "flushing"}

\* _stop_timer: cancel() sets the finished flag; a thread still waiting then
\* ends without calling, a thread past its test of the flag is not stopped
stop_timer(ts, t) ==
    IF t # NoTimer /\ is_alive(t)
    THEN [ts EXCEPT ![t].state = IF @ = "waiting" THEN "cancelled" ELSE @]
    ELSE ts

\* the window an event arrives in: the previous window while the delay since
\* the previous arrival has not elapsed, a new one otherwise
WindowOf(at) ==
    IF refreshing.last_arrival >= 0 /\ at < refreshing.last_arrival + delay_val(_delay)
    THEN refreshing.window ELSE refreshing.window + 1

\* refresh(), lines 192-219: the item is built and appended under the lock
RefreshAppend(dir) ==
    /\ Len(timers) < MaxRefreshEvents
    /\ ~refreshing.active
    /\ _lock = Free
    /\ _lock' = EventThread
    /\ _pending_items' = Append(_pending_items,
            [target_path |-> PathParent(dir), at |-> dnow, window |-> WindowOf(dnow)])
    /\ refreshing' = [active |-> TRUE, last_arrival |-> dnow, window |-> WindowOf(dnow)]
    /\ UNCHANGED <<dnow, _delay, _timer, timers, lastFlush, requests>>
    /\ UNCHANGED debOthers

\* refresh(), lines 220-230: the old timer is stopped, a new one started, the
\* lock released
RefreshRestart ==
    /\ refreshing.active
    /\ _lock = EventThread
    /\ timers' = Append(stop_timer(timers, _timer),
                        [deadline |-> dnow + delay_val(_delay), state |-> "waiting",
                         batch |-> {}])
    /\ _timer' = Len(timers) + 1
    /\ _lock' = Free
    /\ refreshing' = [refreshing EXCEPT !.active = FALSE]
    /\ UNCHANGED <<dnow, _delay, _pending_items, lastFlush, requests>>
    /\ UNCHANGED debOthers

\* Timer.run: the interval has passed, the finished flag is not set, the
\* thread goes on to call _flush_queue
TimerExpire(id) ==
    /\ timers[id].state = "waiting"
    /\ dnow >= timers[id].deadline
    /\ timers' = [timers EXCEPT ![id].state = "calling"]
    /\ UNCHANGED <<dnow, _delay, _pending_items, _timer, _lock, refreshing, lastFlush, requests>>
    /\ UNCHANGED debOthers

\* the items of a batch that name a path, as windows
WindowsOf(items, path) ==
    {items[i].window : i \in {j \in 1..Len(items) : items[j].target_path = path}}

\* _flush_queue, lines 247-253: the block under the lock
FlushDrain(id) ==
    /\ timers[id].state = "calling"
    /\ _lock = Free
    /\ IF _pending_items = <<>>
       THEN /\ timers' = [timers EXCEPT ![id].state = "done"]
            /\ UNCHANGED <<_pending_items, _timer, lastFlush>>
       ELSE /\ timers' = [timers EXCEPT
                  ![id].state = "flushing",
                  ![id].batch = {[path |-> _pending_items[i].target_path,
                                  windows |-> WindowsOf(_pending_items,
                                                        _pending_items[i].target_path)]
                                 : i \in 1..Len(_pending_items)}]
            /\ _pending_items' = <<>>
            /\ _timer' = NoTimer
            /\ lastFlush' = [at |-> dnow, by |-> id,
                             last_arrival |-> _pending_items[Len(_pending_items)].at]
    /\ UNCHANGED <<dnow, _delay, _lock, refreshing, requests>>
    /\ UNCHANGED debOthers

\* the post_data calls of one server for the paths in the order taken, up to
\* and including a call that raises (raise_at, 0 for none)
RECURSIVE ServerRequests(_, _, _, _)
ServerRequests(name, paths, k, raise_at) ==
    IF paths = <<>> THEN <<>>
    ELSE <<[server |-> name, path |-> _convert_path(paths[1].path),
            windows |-> paths[1].windows, raised |-> (k = raise_at)]>>
         \o (IF k = raise_at THEN <<>>
             ELSE ServerRequests(name, Tail(paths), k + 1, raise_at))

\* the loop over services.items(), lines 262-304
RECURSIVE ServiceRequests(_, _, _)
ServiceRequests(services, paths, raise_at) ==
    IF services = <<>> THEN <<>>
    ELSE (IF services[1].type \in {"emby", "jellyfin"}
          THEN ServerRequests(services[1].name, paths, 1, raise_at) ELSE <<>>)
         \o ServiceRequests(Tail(services), paths, raise_at)

\* list(set(...)): the batch in some order
RECURSIVE SeqOf(_)
SeqOf(S) == IF S = {} THEN <<>>
            ELSE LET x == CHOOSE y \in S : TRUE IN <<x>> \o SeqOf(S \ {x})

\* _flush_queue, lines 255-304: outside the lock
FlushSend(id, services, raise_at) ==
    /\ timers[id].state = "flushing"
    /\ timers' = [timers EXCEPT ![id].state = "done"]
    /\ requests' = requests \o ServiceRequests(services, SeqOf(timers[id].batch), raise_at)
    /\ UNCHANGED <<dnow, _delay, _pending_items, _timer, _lock, refreshing, lastFlush>>
    /\ UNCHANGED debOthers

Tick ==
    /\ dnow < MaxTime
    /\ dnow' = dnow + 1
    /\ UNCHANGED <<_delay, _pending_items, _timer, timers, _lock, refreshing, lastFlush, requests>>
    /\ UNCHANGED debOthers

NoFlush == [at |-> -1, by |-> NoTimer, last_arrival |-> -1]

InitDebounce ==
    /\ dnow = 0
    /\ _delay \in {0, DebounceDelay}
    /\ _pending_items = <<>>
    /\ _timer = NoTimer
    /\ timers = <<>>
    /\ _lock = Free
    /\ refreshing = [active |-> FALSE, last_arrival |-> -1, window |-> 0]
    /\ lastFlush = NoFlush
    /\ requests = <<>>
    /\ MergeIdle
    /\ SyncIdle
    /\ WebhookIdle
    /\ ThreadsIdle
    /\ MonitorIdle
    /\ SweepIdle
    /\ AutoIdle

NextDebounce ==
    \/ \E dir \in TargetDirs : RefreshAppend(dir)
    \/ RefreshRestart
    \/ \E id \in 1..Len(timers) : TimerExpire(id)
    \/ \E id \in 1..Len(timers) : FlushDrain(id)
    \/ \E id \in 1..Len(timers), services \in ServiceSets, raise_at \in 0..1 :
            FlushSend(id, services, raise_at)
    \/ Tick

SpecDebounce == InitDebounce /\ [][NextDebounce]_vars

\* C2: under every interleaving of event arrivals and timer firings, no flush
\* of the pending items runs earlier than the arrival time of the most recent
\* event plus the configured delay
C2_DebounceReset ==
    lastFlush.by # NoTimer => lastFlush.at >= lastFlush.last_arrival + delay_val(_delay)

\* C3: events naming the same path that arrive within one debounce window get
\* exactly one refresh call for that path per server
C3_Coalescing ==
    \A i, j \in 1..Len(requests) :
        (i < j /\ requests[i].server = requests[j].server
               /\ requests[i].path = requests[j].path)
            => requests[i].windows \cap requests[j].windows = {}

\* the calls a step adds to the log
NewRequests == SubSeq(requests', Len(requests) + 1, Len(requests'))

\* C12: in a flush a failed call for one path does not keep the calls for the
\* other paths of the batch from being issued: a server that is called at all
\* is called for every path of the batch, and nothing is queued again
C12_PartialFailure ==
    [][\A id \in 1..Len(timers) :
          (timers[id].state = "flushing" /\ timers'[id].state = "done")
          => /\ _pending_items' = _pending_items
             /\ \A k \in 1..Len(NewRequests) : \A b \in timers[id].batch :
                   \E m \in 1..Len(NewRequests) :
                       /\ NewRequests[m].server = NewRequests[k].server
                       /\ NewRequests[m].path = _convert_path(b.path)]_vars

(***************************************************************************)
(* Specification of the merge function on bounded inputs                   *)
(***************************************************************************)
MaxEpisode == 8
MaxSeason == 2
MaxMergeLen == 3
MaxShortEpisode == 3

MergeEvent(s, e) == [season |-> s, episode |-> e]

\* every list of at most MaxMergeLen events over a small range, and every
\* subset of 1..MaxEpisode of season 1 listed in descending order
ShortEventLists ==
    UNION {[1..n -> {MergeEvent(s, e) : s \in 1..MaxSeason,
                                         e \in (1..MaxShortEpisode) \cup {NoInt}}]
           : n \in 1..MaxMergeLen}

RECURSIVE Descending(_)
Descending(S) ==
    IF S = {} THEN <<>>
    ELSE LET m == CHOOSE x \in S : \A y \in S : y <= x
         IN  <<MergeEvent(1, m)>> \o Descending(S \ {m})

SubsetEventLists == {Descending(S) : S \in (SUBSET (1..MaxEpisode)) \ {{}}}

InitMerge ==
    /\ mergeIn \in ShortEventLists \cup SubsetEventLists
    /\ mergeOut = None
    /\ SyncIdle
    /\ DebounceIdle
    /\ WebhookIdle
    /\ ThreadsIdle
    /\ MonitorIdle
    /\ SweepIdle
    /\ AutoIdle

Merge ==
    /\ mergeOut = None
    /\ mergeOut' = _merge_continuous_episodes(mergeIn)
    /\ UNCHANGED <<mergeIn, mergeOthers>>

NextMerge == Merge

SpecMerge == InitMerge /\ [][NextMerge]_vars

\* the valid episode numbers of the input, and whether they are of one season
InputEpisodes == {mergeIn[i].episode : i \in {j \in 1..Len(mergeIn) :
                    mergeIn[j].season # NoInt /\ mergeIn[j].episode # NoInt}}
InputSeasons == {mergeIn[i].season : i \in {j \in 1..Len(mergeIn) :
                    mergeIn[j].season # NoInt /\ mergeIn[j].episode # NoInt}}

\* the maximal runs of consecutive numbers of a set, stated without a scan
MaximalRuns(S) ==
    {r \in S \X S : /\ r[1] <= r[2]
                     /\ \A k \in r[1]..r[2] : k \in S
                     /\ (r[1] - 1) \notin S
                     /\ (r[2] + 1) \notin S}

RunText(r) ==
    IF r[2] > r[1] THEN "E" \o Zfill2(r[1]) \o "-E" \o Zfill2(r[2])
    ELSE "E" \o Zfill2(r[1])

ExpectedSeasonText(s, S) ==
    LET starts == SortedSeq({r[1] : r \in MaximalRuns(S)})
        runOf(a) == CHOOSE r \in MaximalRuns(S) : r[1] = a
    IN  "S" \o Zfill2(s) \o " " \o
        Join(" ", [k \in 1..Len(starts) |-> RunText(runOf(starts[k]))])

\* C7: for the episodes of one season the merge writes "Sxx" and then the
\* sorted, deduplicated episodes as maximal runs of consecutive numbers, a run
\* of two or more as "Eaa-Ebb" and a single episode as "Eaa"; episodes
\* {1,2,3,5,7,8} of season 1 give "S01 E01-E03 E05 E07-E08".
C7_EpisodeMerge ==
    (mergeOut # None /\ Cardinality(InputSeasons) = 1) =>
        /\ mergeOut = ExpectedSeasonText(CHOOSE s \in InputSeasons : TRUE, InputEpisodes)
        /\ (InputSeasons = {1} /\ InputEpisodes = {1, 2, 3, 5, 7, 8})
              => mergeOut = "S01 E01-E03 E05 E07-E08"

C7_Witness ==
    /\ InputEpisodes = {1, 2, 3, 5, 7, 8}
    /\ mergeOut = "S01 E01-E03 E05 E07-E08"

(***************************************************************************)
(* wd99: webhook notification, dedup cache and series aggregation           *)
(* Threads: the event threads running send(), one thread per                *)
(* threading.Timer calling _send_aggregated_message, and the thread that    *)
(* runs stop_service.  The plugin takes no lock.                            *)
(***************************************************************************)
DEFAULT_EXPIRATION_TIME == 600
AggregateTime == 2
MaxWebhookEvents == 3
MaxAggregateClock == 3
MaxInflight == 2

\* a WebhookEventInfo; series_id is what _get_series_id finds, season and
\* episode what the Item json or the event attributes carry
WebhookEvent(ev, server, typ, item, cl, user, series, se, ep) ==
    [has_data |-> TRUE, event |-> ev, server_name |-> server, item_type |-> typ,
     item_id |-> item, client |-> cl, user_name |-> user, series_id |-> series,
     season |-> se, episode |-> ep]

\* event.event_data is None
NoData == [WebhookEvent("", "", "", "", "", "", None, NoInt, NoInt) EXCEPT !.has_data = FALSE]

Episode(series, se, ep) ==
    WebhookEvent("library.new", "emby", "TV", series \o "e" \o ToString(ep), "", "", series, se, ep)

AggregateEvents == {Episode("s1", 1, 1), Episode("s1", 1, 2), Episode("s2", 1, 1)}

DedupEvents ==
    { WebhookEvent("playback.stop", "emby", "MOV", "m1", "web", "ann", None, NoInt, NoInt),
      WebhookEvent("PlaybackStop", "emby", "MOV", "m1", "web", "ann", None, NoInt, NoInt),
      WebhookEvent("playback.start", "emby", "MOV", "m1", "web", "ann", None, NoInt, NoInt),
      WebhookEvent("item.rate", "emby", "MOV", "m1", "web", "ann", None, NoInt, NoInt),
      WebhookEvent("system.webhooktest", "emby", "", "", "", "", None, NoInt, NoInt),
      WebhookEvent("user.authenticated", "emby", "", "", "web", "ann", None, NoInt, NoInt),
      NoData }

SeriesIds == {"s1", "s2"}

WebhookConfig(en, servers, types, agg) ==
    [enabled |-> en, mediaservers |-> servers, types |-> types,
     aggregate_enabled |-> agg, aggregate_time |-> AggregateTime]

AggregateConfigs == {WebhookConfig(TRUE, {"emby"}, <<"library.new">>, TRUE)}

DedupConfigs ==
    { WebhookConfig(TRUE, {"emby"},
                    <<"playback.start|media.play|PlaybackStart",
                      "playback.stop|media.stop|PlaybackStop",
                      "user.authenticated|user.authenticationfailed">>, FALSE),
      WebhookConfig(TRUE, {}, <<"playback.stop|media.stop|PlaybackStop">>, FALSE),
      WebhookConfig(FALSE, {"emby"}, <<"playback.stop|media.stop|PlaybackStop">>, FALSE) }

\* _type.split("|") as a set
RECURSIVE SplitPipe(_, _)
SplitPipe(str, cur) ==
    IF str = "" THEN {cur}
    ELSE IF SubSeq(str, 1, 1) = "|" THEN {cur} \cup SplitPipe(Tail(str), "")
    ELSE SplitPipe(Tail(str), cur \o SubSeq(str, 1, 1))

allowed_types(types) == UNION {SplitPipe(types[i], "") : i \in 1..Len(types)}

expiring_key(e) == e.item_id \o "-" \o e.client \o "-" \o e.user_name \o "-" \o e.event

IsTest(e) == Contains(Lower(e.event), "test")
IsStop(e) == Contains(Lower(e.event), "stop")
IsStart(e) == Contains(Lower(e.event), "start")
IsLogin(e) == Contains(Lower(e.event), "user.authentic")

\* a slip: the entry is written without its time to live
add_key_cache_no_ttl(cache, key, t) ==
    [k \in DOMAIN cache \cup {key} |-> IF k = key THEN t ELSE cache[k]]

\* _add_key_cache
add_key_cache(cache, key, t) ==
    [k \in DOMAIN cache \cup {key} |-> IF k = key THEN t + DEFAULT_EXPIRATION_TIME ELSE cache[k]]

\* _remove_key_cache
remove_key_cache(cache, key) == [k \in DOMAIN cache \ {key} |-> cache[k]]

\* a slip: nothing is removed
clean_expired_cache_keep(cache, t) == cache

\* _clean_expired_cache
clean_expired_cache(cache, t) == [k \in {x \in DOMAIN cache : cache[x] > t} |-> cache[k]]

\* a slip: the item type is compared with the movie type
should_aggregate_tv_movie(e) ==
    wconf.aggregate_enabled /\ e.event = "library.new" /\ e.item_type \in {"MOV"}

\* _should_aggregate_tv
should_aggregate_tv(e) ==
    wconf.aggregate_enabled /\ e.event = "library.new" /\ e.item_type \in {"TV", "SHOW"}

\* send(), lines 194-258: where an event goes
Route(e) ==
    IF ~wconf.enabled \/ ~e.has_data \/ e.event = "" THEN "rejected"
    ELSE IF wconf.mediaservers = {} /\ ~IsTest(e) THEN "rejected"
    ELSE IF wconf.mediaservers # {} /\ e.server_name # ""
            /\ e.server_name \notin wconf.mediaservers THEN "rejected"
    ELSE IF ~IsTest(e) /\ e.event \notin allowed_types(wconf.types) THEN "rejected"
    ELSE IF IsStop(e) /\ expiring_key(e) \in DOMAIN clean_expired_cache(_webhook_msg_keys, wnow)
         THEN "duplicate"
    ELSE IF IsTest(e) THEN "test"
    ELSE IF IsLogin(e) THEN "login"
    ELSE IF should_aggregate_tv(e) /\ e.series_id # None THEN "aggregate"
    ELSE "single"

\* the buffers: a list of [series, msgs] in the order the keys were inserted
HasSeries(pending, sid) == \E i \in 1..Len(pending) : pending[i].series = sid
MsgsOf(pending, sid) ==
    pending[CHOOSE i \in 1..Len(pending) : pending[i].series = sid].msgs
PopSeries(pending, sid) == SelectSeq(pending, LAMBDA b : b.series # sid)
AppendMsg(pending, sid, m) ==
    IF HasSeries(pending, sid)
    THEN [i \in 1..Len(pending) |->
            IF pending[i].series = sid
            THEN [pending[i] EXCEPT !.msgs = Append(@, m)] ELSE pending[i]]
    ELSE Append(pending, [series |-> sid, msgs |-> <<m>>])

\* the window an episode arrives in: the previous window of its series while
\* the aggregate delay since the previous arrival has not elapsed
EpisodeWindow(sid, at) ==
    IF arrivals[sid].last >= 0 /\ at < arrivals[sid].last + wconf.aggregate_time
    THEN arrivals[sid].window ELSE arrivals[sid].window + 1

\* a post_message call: what it reports, how long after the arrival of the
\* latest of its events it is made, and the dedup key of an event that came
\* through send() (a buffered event is processed under a key of its own)
Notification(kind, sid, msgs, forced) ==
    [kind |-> kind, series |-> sid, forced |-> forced,
     events |-> {msgs[i].n : i \in 1..Len(msgs)},
     windows |-> {msgs[i].window : i \in 1..Len(msgs)},
     waited |-> wnow - msgs[Len(msgs)].at,
     key |-> IF sid = None THEN expiring_key(msgs[1].event) ELSE None,
     text |-> IF kind = "aggregated"
              THEN _merge_continuous_episodes([i \in 1..Len(msgs) |-> msgs[i].event])
              ELSE IF kind = "single" /\ msgs[1].event.season # NoInt
                                      /\ msgs[1].event.episode # NoInt
              THEN "S" \o Zfill2(msgs[1].event.season) \o "E" \o Zfill2(msgs[1].event.episode)
              ELSE ""]

Msg(e, window) == [n |-> received.count + 1, at |-> wnow, window |-> window, event |-> e]

\* send(), for an event that ends inside send or is buffered
Send(e) ==
    /\ received.count < MaxWebhookEvents
    /\ \E route \in {Route(e)}, cleaned \in {clean_expired_cache(_webhook_msg_keys, wnow)} :
           /\ route # "aggregate" \/ aggregating = None
           /\ route # "single" \/ Len(processing) < MaxInflight
           /\ received' = [count |-> received.count + 1, route |-> route,
                           key |-> IF route = "rejected" THEN "" ELSE expiring_key(e),
                           stop |-> route # "rejected" /\ IsStop(e)]
           /\ _webhook_msg_keys' = IF route = "rejected" THEN _webhook_msg_keys
                                   ELSE IF route = "duplicate"
                                   THEN add_key_cache(cleaned, expiring_key(e), wnow)
                                   ELSE cleaned
           /\ touched' = IF route = "duplicate"
                         THEN [k \in DOMAIN touched \cup {expiring_key(e)} |->
                                 IF k = expiring_key(e) THEN wnow ELSE touched[k]]
                         ELSE touched
           /\ notifications' = IF route \in {"test", "login"}
                               THEN Append(notifications,
                                           Notification(route, None, <<Msg(e, 0)>>, FALSE))
                               ELSE notifications
           /\ _pending_messages' =
                IF route = "aggregate"
                THEN AppendMsg(_pending_messages, e.series_id,
                               Msg(e, EpisodeWindow(e.series_id, wnow)))
                ELSE _pending_messages
           /\ arrivals' = IF route = "aggregate"
                          THEN [arrivals EXCEPT ![e.series_id] =
                                  [last |-> wnow, window |-> EpisodeWindow(e.series_id, wnow)]]
                          ELSE arrivals
           /\ aggregating' = IF route = "aggregate" THEN e.series_id ELSE aggregating
           /\ processing' = IF route = "single"
                            THEN Append(processing, [msg |-> Msg(e, 0), key |-> expiring_key(e)])
                            ELSE processing
    /\ UNCHANGED <<wnow, wconf, _aggregate_timers, wtimers, stopped>>
    /\ UNCHANGED webOthers

\* Timer.cancel(): a thread still waiting ends, one past its test of the
\* finished flag goes on
cancel(ts, id) ==
    IF ts[id].state = "waiting" THEN [ts EXCEPT ![id].state = "cancelled"] ELSE ts

\* _aggregate_tv_episodes, lines 281-288: cancel the series' timer, start a
\* new one
AggregateRestart ==
    /\ aggregating # None
    /\ LET sid == aggregating
           old == IF sid \in DOMAIN _aggregate_timers
                  THEN cancel(wtimers, _aggregate_timers[sid]) ELSE wtimers
       IN  /\ wtimers' = Append(old, [series |-> sid, state |-> "waiting",
                                      deadline |-> wnow + wconf.aggregate_time])
           /\ _aggregate_timers' = [k \in DOMAIN _aggregate_timers \cup {sid} |->
                                      IF k = sid THEN Len(wtimers) + 1
                                      ELSE _aggregate_timers[k]]
    /\ aggregating' = None
    /\ UNCHANGED <<wnow, wconf, _webhook_msg_keys, _pending_messages, processing,
                   notifications, received, touched, arrivals, stopped>>
    /\ UNCHANGED webOthers

WebFaults == {"none", "enrich", "post"}

\* _process_single_media_event: an exception while the message is built
\* ("enrich") ends the call before the cache is touched, one raised by
\* post_message ("post") after it
ProcessSingle(i, fault) ==
    /\ i \in 1..Len(processing)
    /\ LET p == processing[i] IN
        /\ _webhook_msg_keys' =
              IF fault = "enrich" THEN _webhook_msg_keys
              ELSE IF IsStop(p.msg.event)
              THEN add_key_cache(_webhook_msg_keys, p.key, wnow)
              ELSE IF IsStart(p.msg.event) THEN remove_key_cache(_webhook_msg_keys, p.key)
              ELSE _webhook_msg_keys
        /\ touched' = IF fault # "enrich" /\ IsStop(p.msg.event)
                      THEN [k \in DOMAIN touched \cup {p.key} |->
                              IF k = p.key THEN wnow ELSE touched[k]]
                      ELSE touched
        /\ notifications' = IF fault = "none"
                            THEN Append(notifications,
                                        Notification("single", None, <<p.msg>>, FALSE))
                            ELSE notifications
    /\ processing' = [k \in 1..(Len(processing) - 1) |->
                        IF k < i THEN processing[k] ELSE processing[k + 1]]
    /\ UNCHANGED <<wnow, wconf, _pending_messages, _aggregate_timers, wtimers, aggregating,
                   received, arrivals, stopped>>
    /\ UNCHANGED webOthers

\* Timer.run: the interval has passed and the finished flag is not set
WTimerExpire(id) ==
    /\ wtimers[id].state = "waiting"
    /\ wnow >= wtimers[id].deadline
    /\ wtimers' = [wtimers EXCEPT ![id].state = "calling"]
    /\ UNCHANGED <<wnow, wconf, _webhook_msg_keys, _pending_messages, _aggregate_timers,
                   aggregating, processing, notifications, received, touched, arrivals, stopped>>
    /\ UNCHANGED webOthers

\* the part of the state _send_aggregated_message works on
Buffers(pending, tmap, notes) == [pending |-> pending, tmap |-> tmap, notes |-> notes]

\* _send_aggregated_message; with a fault the exception leaves after the pops
send_aggregated_message(b, sid, forced, fault) ==
    IF ~HasSeries(b.pending, sid) THEN b
    ELSE LET msg_list == MsgsOf(b.pending, sid)
             kind == IF Len(msg_list) = 1 THEN "single" ELSE "aggregated"
         IN  Buffers(PopSeries(b.pending, sid),
                     [k \in DOMAIN b.tmap \ {sid} |-> b.tmap[k]],
                     IF fault # "none" THEN b.notes
                     ELSE Append(b.notes, Notification(kind, sid, msg_list, forced)))

\* the timer thread calls _send_aggregated_message(series_id)
SendAggregated(id, fault) ==
    /\ wtimers[id].state = "calling"
    /\ wtimers' = [wtimers EXCEPT ![id].state = "done"]
    /\ LET b == send_aggregated_message(
                    Buffers(_pending_messages, _aggregate_timers, notifications),
                    wtimers[id].series, FALSE, fault)
       IN  /\ _pending_messages' = b.pending
           /\ _aggregate_timers' = b.tmap
           /\ notifications' = b.notes
    /\ UNCHANGED <<wnow, wconf, _webhook_msg_keys, aggregating, processing, received,
                   touched, arrivals, stopped>>
    /\ UNCHANGED webOthers

\* the loop of stop_service over list(_pending_messages.keys()); the flush of
\* the raise_at-th series raises (0 for none).  The result says whether the
\* loop ended normally.
RECURSIVE FlushAll(_, _, _, _)
FlushAll(b, keys, k, raise_at) ==
    IF keys = <<>> THEN [b |-> b, raised |-> FALSE]
    ELSE IF k = raise_at
    THEN [b |-> send_aggregated_message(b, keys[1], TRUE, "post"), raised |-> TRUE]
    ELSE FlushAll(send_aggregated_message(b, keys[1], TRUE, "none"), Tail(keys), k + 1, raise_at)

RECURSIVE CancelAll(_, _)
CancelAll(ts, ids) ==
    IF ids = {} THEN ts
    ELSE LET id == CHOOSE x \in ids : TRUE IN CancelAll(cancel(ts, id), ids \ {id})

\* the events held in the buffers other than the k-th
HeldEvents(pending, k) ==
    UNION {{pending[i].msgs[j].n : j \in 1..Len(pending[i].msgs)}
           : i \in (1..Len(pending)) \ {k}}

\* stop_service: everything is inside one try
StopService(raise_at) ==
    /\ ~stopped.ran
    /\ raise_at <= Len(_pending_messages)
    /\ LET keys == [i \in 1..Len(_pending_messages) |-> _pending_messages[i].series]
           r == FlushAll(Buffers(_pending_messages, _aggregate_timers, notifications),
                         keys, 1, raise_at)
       IN  /\ notifications' = r.b.notes
           /\ stopped' = [ran |-> TRUE, raised |-> r.raised, at |-> wnow,
                          held |-> HeldEvents(_pending_messages, raise_at)]
           /\ IF r.raised
              THEN /\ _pending_messages' = r.b.pending
                   /\ _aggregate_timers' = r.b.tmap
                   /\ UNCHANGED <<wtimers, _webhook_msg_keys, touched>>
              ELSE /\ wtimers' = CancelAll(wtimers,
                                           {r.b.tmap[k] : k \in DOMAIN r.b.tmap})
                   /\ _aggregate_timers' = <<>>
                   /\ _pending_messages' = <<>>
                   /\ _webhook_msg_keys' = <<>>
                   /\ touched' = <<>>
    /\ UNCHANGED <<wnow, wconf, aggregating, processing, received, arrivals>>
    /\ UNCHANGED webOthers

\* time passes, up to a later instant
WTick(t) ==
    /\ wnow < t
    /\ wnow' = t
    /\ UNCHANGED <<wconf, _webhook_msg_keys, _pending_messages, _aggregate_timers, wtimers,
                   aggregating, processing, notifications, received, touched, arrivals, stopped>>
    /\ UNCHANGED webOthers

NoEvent == [count |-> 0, route |-> None, key |-> "", stop |-> FALSE]
NotStopped == [ran |-> FALSE, raised |-> FALSE, at |-> 0, held |-> {}]

InitWebhook(configs) ==
    /\ wnow = 0
    /\ wconf \in configs
    /\ _webhook_msg_keys = <<>>
    /\ _pending_messages = <<>>
    /\ _aggregate_timers = <<>>
    /\ wtimers = <<>>
    /\ aggregating = None
    /\ processing = <<>>
    /\ notifications = <<>>
    /\ received = NoEvent
    /\ touched = <<>>
    /\ arrivals = [sid \in SeriesIds |-> [last |-> -1, window |-> 0]]
    /\ stopped = NotStopped
    /\ MergeIdle
    /\ SyncIdle
    /\ DebounceIdle
    /\ ThreadsIdle
    /\ MonitorIdle
    /\ SweepIdle
    /\ AutoIdle

InitAggregate == InitWebhook(AggregateConfigs)

NextAggregate ==
    \/ \E e \in AggregateEvents : Send(e)
    \/ AggregateRestart
    \/ \E id \in 1..Len(wtimers) : WTimerExpire(id)
    \/ \E id \in 1..Len(wtimers), fault \in {"none", "post"} : SendAggregated(id, fault)
    \/ \E raise_at \in 0..2 : StopService(raise_at)
    \/ \E t \in 1..MaxAggregateClock : WTick(t)

SpecAggregate == InitAggregate /\ [][NextAggregate]_vars

InitDedup == InitWebhook(DedupConfigs)

\* the instants around the expiry of an entry cached at 0 or at 1
DedupInstants == {1, DEFAULT_EXPIRATION_TIME - 1, DEFAULT_EXPIRATION_TIME,
                  DEFAULT_EXPIRATION_TIME + 1}

NextDedup ==
    \/ \E e \in DedupEvents : Send(e)
    \/ \E i \in 1..MaxInflight, fault \in WebFaults : ProcessSingle(i, fault)
    \/ \E raise_at \in {0} : StopService(raise_at)
    \/ \E t \in DedupInstants : WTick(t)

SpecDedup == InitDedup /\ [][NextDedup]_vars

\* the notifications made from a series buffer by its timer
TimerNotes == {i \in 1..Len(notifications) :
                 notifications[i].series # None /\ ~notifications[i].forced}

\* C4: library.new events of one series that each arrive before the aggregate
\* delay of the previous one has elapsed are reported by exactly one
\* notification holding all of them, sent no earlier than the aggregate delay
\* after the last of them
C4_SeriesAggregation ==
    /\ \A i \in TimerNotes :
          (Cardinality(notifications[i].events) >= 2
             /\ Cardinality(notifications[i].windows) = 1)
            => notifications[i].waited >= wconf.aggregate_time
    /\ \A i, j \in TimerNotes :
          (i < j /\ notifications[i].series = notifications[j].series)
            => notifications[i].windows \cap notifications[j].windows = {}

\* C10: every event held in a series buffer when stop_service runs is
\* dispatched in a notification, also when the flush of another series raises
\* (stopped.held leaves out the events of the series whose flush raised)
C10_ShutdownLosesNoInput ==
    stopped.ran =>
        \A n \in stopped.held : \E i \in 1..Len(notifications) : n \in notifications[i].events

\* C5: a stop event whose key was cached or refreshed less than the time to
\* live ago is dropped: no notification, nothing queued, and the cache holds
\* the key with the expiry of this event's time plus the time to live
C5_DedupSuppression ==
    [][(/\ received'.count = received.count + 1
        /\ received'.stop
        /\ received'.key \in DOMAIN touched
        /\ wnow < touched[received'.key] + DEFAULT_EXPIRATION_TIME)
       => (/\ received'.route = "duplicate"
           /\ notifications' = notifications
           /\ processing' = processing
           /\ _pending_messages' = _pending_messages
           /\ received'.key \in DOMAIN _webhook_msg_keys'
           /\ _webhook_msg_keys'[received'.key] = wnow + DEFAULT_EXPIRATION_TIME
           /\ \A k \in DOMAIN _webhook_msg_keys' \ {received'.key} :
                 k \in DOMAIN _webhook_msg_keys /\ _webhook_msg_keys'[k] = _webhook_msg_keys[k])]_vars

\* a stop was dispatched at 0, its repeat just before the expiry is dropped
\* and moves the expiry
C5_Witness ==
    /\ received.count = 2
    /\ received.route = "duplicate"
    /\ wnow = DEFAULT_EXPIRATION_TIME - 1
    /\ Len(notifications) = 1
    /\ notifications[1].kind = "single"
    /\ processing = <<>>
    /\ _webhook_msg_keys = (received.key :> (2 * DEFAULT_EXPIRATION_TIME - 1))

\* C11: when stop_service returns, no aggregation timer is still armed, and
\* the buffers, the timer map and the dedup cache are empty
C11_ShutdownCancelsAndClears ==
    [][(~stopped.ran /\ stopped'.ran)
       => (/\ \A id \in 1..Len(wtimers') : wtimers'[id].state # "waiting"
           /\ _pending_messages' = <<>>
           /\ _aggregate_timers' = <<>>
           /\ _webhook_msg_keys' = <<>>)]_vars

\* the timers of a series that are started, not cancelled and not yet fired
ActiveTimers(sid) ==
    {id \in 1..Len(wtimers) : wtimers[id].series = sid /\ wtimers[id].state = "waiting"}

\* C14: in every reachable state there is at most one active timer per
\* series id
C14_SeriesTimerInvariant ==
    \A sid \in SeriesIds : Cardinality(ActiveTimers(sid)) <= 1

(***************************************************************************)
(* Lkwang88 / CloudStrmCompanionLkwang88: threads and locks                 *)
(* File handlers (one observer thread per root, the scan job, strm_one),    *)
(* the __process_refresh_queue job and the send_msg job.  A thread is in    *)
(* a region of the code; the step that leaves the region has its effect.    *)
(***************************************************************************)
MaxFileEvents == 3
MaxFlushJobs == 2
MaxSweeps == 1

Handlers == {1, 2}
Flusher == 3

ThreadFiles == {"/src/ShowX/S01E01.mkv", "/src/ShowX/S01E02.mkv", "/src/Film/src.mkv"}

ThreadConfigs ==
    {sw @@ [rule |-> [local_dir |-> "/src", strm_dir |-> "/ptr", cloud_dir |-> "/cloud",
                      format_str |-> "{cloud_file}"]]
     : sw \in {Switches(FALSE, TRUE, TRUE, {"emby"}, "http://push", FALSE, TRUE, TRUE, <<>>)}}

\* the regions of __handle_file that are inside __create_strm_file's try, and
\* all those inside __handle_file's own try
CreateRegions == {"write", "push", "collect", "enqueue", "adding"}
TryRegions == {"waiting", "mapping", "sidecars", "exit"} \cup CreateRegions

\* the regions in which an outbound call executes: the pointer-file write,
\* the task-push POST, the sidecar copy
OutboundRegions == {"write", "push", "sidecars"}

\* a slip: only __create_strm_file has a try
CreateCatchesOnly(region) == region \in CreateRegions

\* whether an exception raised in a region is caught inside the handler
HandlerCatches(region) == region \in TryRegions

\* a slip: the lock is taken without looking at its holder
RefreshLockIgnored(holder) == TRUE

\* with self._refresh_lock: the lock can be taken when nobody holds it
RefreshLockFree(holder) == holder = 0

Idle == [pc |-> "idle", event_path |-> None, created |-> FALSE]

Go(h, region) == [hpc EXCEPT ![h].pc = region]

\* an exception in a region: __create_strm_file returns False, __handle_file
\* leaves its with block; uncaught, it ends the calling thread
Raise(h) ==
    [hpc EXCEPT ![h].pc = IF HandlerCatches(hpc[h].pc) THEN "exit" ELSE "dead",
                ![h].created = FALSE]

Faulted == [started EXCEPT !.faults = TRUE]

\* event_handler / scan / strm_one call __handle_file; Path(event_path).exists()
HStart(h, event_path) ==
    /\ hpc[h].pc = "idle"
    /\ started.events < MaxFileEvents
    /\ started' = [started EXCEPT !.events = @ + 1]
    /\ hpc' = [hpc EXCEPT ![h] = [pc |-> "waiting", event_path |-> event_path,
                                  created |-> FALSE]]
    /\ UNCHANGED <<lock, _refresh_lock, fpc, spc, drains, adds, refreshes>>
    /\ UNCHANGED <<disk, _refresh_queue, _medias, pushes>>
    /\ UNCHANGED thrOthers

\* with lock:
HAcquire(h) ==
    /\ hpc[h].pc = "waiting"
    /\ lock = 0
    /\ lock' = h
    /\ hpc' = Go(h, "mapping")
    /\ UNCHANGED <<_refresh_lock, fpc, spc, drains, adds, refreshes, started>>
    /\ UNCHANGED <<disk, _refresh_queue, _medias, pushes>>
    /\ UNCHANGED thrOthers

ThreadTarget(h) == MapPath(hpc[h].event_path, conf.rule.local_dir, conf.rule.strm_dir)
ThreadPointer(h) == StrmFilePath(ThreadTarget(h))
ThreadContent(h) ==
    ApplyReplacements(
        format_content(conf.rule.format_str, hpc[h].event_path,
                       MapPath(hpc[h].event_path, conf.rule.local_dir, conf.rule.cloud_dir),
                       conf.uriencode),
        conf.path_replacements)

\* lines 304-318 and 365-371: the paths, the template, makedirs, the exists
\* check of the pointer
HMap(h, fault) ==
    /\ hpc[h].pc = "mapping"
    /\ IF fault
       THEN hpc' = Raise(h) /\ started' = Faulted
       ELSE /\ hpc' = IF PointerExists(disk, ThreadPointer(h)) /\ ~conf.cover
                      THEN Go(h, "exit") ELSE Go(h, "write")
            /\ UNCHANGED started
    /\ UNCHANGED <<lock, _refresh_lock, fpc, spc, drains, adds, refreshes>>
    /\ UNCHANGED <<disk, _refresh_queue, _medias, pushes>>
    /\ UNCHANGED thrOthers

\* lines 377-378: the pointer file is written
HWrite(h, fault) ==
    /\ hpc[h].pc = "write"
    /\ IF fault
       THEN hpc' = Raise(h) /\ started' = Faulted /\ UNCHANGED disk
       ELSE /\ \E content \in {ThreadContent(h)} :
                   disk' = WriteFile(disk, ThreadPointer(h), content)
            /\ hpc' = Go(h, "push")
            /\ UNCHANGED started
    /\ UNCHANGED <<lock, _refresh_lock, fpc, spc, drains, adds, refreshes>>
    /\ UNCHANGED <<_refresh_queue, _medias, pushes>>
    /\ UNCHANGED thrOthers

\* lines 382-386: the task-push POST
HPush(h, fault) ==
    /\ hpc[h].pc = "push"
    /\ IF fault
       THEN hpc' = Raise(h) /\ started' = Faulted /\ UNCHANGED pushes
       ELSE /\ pushes' = Append(pushes, disk[ThreadPointer(h)])
            /\ hpc' = Go(h, "collect")
            /\ UNCHANGED started
    /\ UNCHANGED <<lock, _refresh_lock, fpc, spc, drains, adds, refreshes>>
    /\ UNCHANGED <<disk, _refresh_queue, _medias>>
    /\ UNCHANGED thrOthers

\* lines 388-389: __collect_notify_info
HCollect(h, fault) ==
    /\ hpc[h].pc = "collect"
    /\ IF fault
       THEN hpc' = Raise(h) /\ started' = Faulted /\ UNCHANGED _medias
       ELSE /\ _medias' = collect_notify_info(_medias, ThreadPointer(h))
            /\ hpc' = Go(h, "enqueue")
            /\ UNCHANGED started
    /\ UNCHANGED <<lock, _refresh_lock, fpc, spc, drains, adds, refreshes>>
    /\ UNCHANGED <<disk, _refresh_queue, pushes>>
    /\ UNCHANGED thrOthers

\* __add_to_refresh_queue: with self._refresh_lock
HEnqueue(h) ==
    /\ hpc[h].pc = "enqueue"
    /\ RefreshLockFree(_refresh_lock)
    /\ _refresh_lock' = h
    /\ hpc' = Go(h, "adding")
    /\ UNCHANGED <<lock, fpc, spc, drains, adds, refreshes, started>>
    /\ UNCHANGED <<disk, _refresh_queue, _medias, pushes>>
    /\ UNCHANGED thrOthers

\* self._refresh_queue.add(parent_dir), the lock is released, the call
\* returns True
HAdd(h) ==
    /\ hpc[h].pc = "adding"
    /\ _refresh_queue' = add_to_refresh_queue(_refresh_queue, ThreadPointer(h))
    /\ adds' = adds \cup {[path |-> PathParent(ThreadPointer(h)), epoch |-> Len(drains)]}
    /\ _refresh_lock' = 0
    /\ hpc' = [hpc EXCEPT ![h].pc = "sidecars", ![h].created = TRUE]
    /\ started' = [started EXCEPT !.after_fault = @ \/ started.faults]
    /\ UNCHANGED <<lock, fpc, spc, drains, refreshes>>
    /\ UNCHANGED <<disk, _medias, pushes>>
    /\ UNCHANGED thrOthers

\* lines 320-330: the sidecar files are copied
HSidecars(h, fault) ==
    /\ hpc[h].pc = "sidecars"
    /\ IF fault
       THEN hpc' = Raise(h) /\ started' = Faulted /\ UNCHANGED disk
       ELSE /\ disk' = handle_other_files(disk, Sidecars(hpc[h].event_path), conf.rule.local_dir)
            /\ hpc' = Go(h, "exit")
            /\ UNCHANGED started
    /\ UNCHANGED <<lock, _refresh_lock, fpc, spc, drains, adds, refreshes>>
    /\ UNCHANGED <<_refresh_queue, _medias, pushes>>
    /\ UNCHANGED thrOthers

\* the with block is left, normally or by an exception, and __handle_file
\* returns
HExit(h) ==
    /\ hpc[h].pc = "exit"
    /\ lock' = 0
    /\ hpc' = [hpc EXCEPT ![h] = Idle]
    /\ UNCHANGED <<_refresh_lock, fpc, spc, drains, adds, refreshes, started>>
    /\ UNCHANGED <<disk, _refresh_queue, _medias, pushes>>
    /\ UNCHANGED thrOthers

FlusherIdle == [pc |-> "idle", todo |-> {}, drain |-> 0]

\* the interval job calls __process_refresh_queue
FStart ==
    /\ fpc.pc = "idle"
    /\ started.flushes < MaxFlushJobs
    /\ started' = [started EXCEPT !.flushes = @ + 1]
    /\ fpc' = [fpc EXCEPT !.pc = "check"]
    /\ UNCHANGED <<lock, _refresh_lock, hpc, spc, drains, adds, refreshes>>
    /\ UNCHANGED <<disk, _refresh_queue, _medias, pushes>>
    /\ UNCHANGED thrOthers

\* if not self._refresh_queue: return (read without the lock)
FCheck ==
    /\ fpc.pc = "check"
    /\ fpc' = IF _refresh_queue = {} THEN FlusherIdle ELSE [fpc EXCEPT !.pc = "acquire"]
    /\ UNCHANGED <<lock, _refresh_lock, hpc, spc, drains, adds, refreshes, started>>
    /\ UNCHANGED <<disk, _refresh_queue, _medias, pushes>>
    /\ UNCHANGED thrOthers

\* with self._refresh_lock:
FAcquire ==
    /\ fpc.pc = "acquire"
    /\ RefreshLockFree(_refresh_lock)
    /\ _refresh_lock' = Flusher
    /\ fpc' = [fpc EXCEPT !.pc = "copy"]
    /\ UNCHANGED <<lock, hpc, spc, drains, adds, refreshes, started>>
    /\ UNCHANGED <<disk, _refresh_queue, _medias, pushes>>
    /\ UNCHANGED thrOthers

\* paths = list(self._refresh_queue)
FCopy ==
    /\ fpc.pc = "copy"
    /\ drains' = Append(drains, _refresh_queue)
    /\ fpc' = [pc |-> "clear", todo |-> _refresh_queue, drain |-> Len(drains) + 1]
    /\ UNCHANGED <<lock, _refresh_lock, hpc, spc, adds, refreshes, started>>
    /\ UNCHANGED <<disk, _refresh_queue, _medias, pushes>>
    /\ UNCHANGED thrOthers

\* self._refresh_queue.clear(), the lock is released
FClear ==
    /\ fpc.pc = "clear"
    /\ _refresh_queue' = {}
    /\ _refresh_lock' = 0
    /\ fpc' = [fpc EXCEPT !.pc = "refresh"]
    /\ UNCHANGED <<lock, hpc, spc, drains, adds, refreshes, started>>
    /\ UNCHANGED <<disk, _medias, pushes>>
    /\ UNCHANGED thrOthers

\* __refresh_emby_file(path) for the next path of the batch; an exception of
\* the call is caught per server
FRefresh(path) ==
    /\ fpc.pc = "refresh"
    /\ path \in fpc.todo
    /\ refreshes' = Append(refreshes, [path |-> path, drain |-> fpc.drain])
    /\ fpc' = IF fpc.todo = {path} THEN FlusherIdle ELSE [fpc EXCEPT !.todo = @ \ {path}]
    /\ UNCHANGED <<lock, _refresh_lock, hpc, spc, drains, adds, started>>
    /\ UNCHANGED <<disk, _refresh_queue, _medias, pushes>>
    /\ UNCHANGED thrOthers

SenderIdle == [pc |-> "idle", keys |-> {}, sent |-> {}]

\* the interval job calls send_msg: list(self._medias.keys())
SStart ==
    /\ spc.pc = "idle"
    /\ started.sweeps < MaxSweeps
    /\ started' = [started EXCEPT !.sweeps = @ + 1]
    /\ spc' = IF DOMAIN _medias = {} THEN spc
              ELSE [spc EXCEPT !.pc = "sweeping", !.keys = DOMAIN _medias]
    /\ UNCHANGED <<lock, _refresh_lock, hpc, fpc, drains, adds, refreshes>>
    /\ UNCHANGED <<disk, _refresh_queue, _medias, pushes>>
    /\ UNCHANGED thrOthers

\* the loop of send_msg: an entry that is a movie, or whose last update is
\* older than the interval (due), is dispatched and deleted
SSweep(due) ==
    /\ spc.pc = "sweeping"
    /\ \E gone \in {{k \in spc.keys \cap DOMAIN _medias : due \/ _medias[k].type = "movie"}} :
          /\ _medias' = [k \in DOMAIN _medias \ gone |-> _medias[k]]
          /\ spc' = [pc |-> "idle", keys |-> {}, sent |-> spc.sent \cup gone]
    /\ UNCHANGED <<lock, _refresh_lock, hpc, fpc, drains, adds, refreshes, started>>
    /\ UNCHANGED <<disk, _refresh_queue, pushes>>
    /\ UNCHANGED thrOthers

InitThreads ==
    /\ conf \in ThreadConfigs
    /\ disk = <<>>
    /\ _refresh_queue = {}
    /\ _medias = <<>>
    /\ pushes = <<>>
    /\ last = None
    /\ ncalls = 0
    /\ lock = 0
    /\ _refresh_lock = 0
    /\ hpc = [h \in Handlers |-> Idle]
    /\ fpc = FlusherIdle
    /\ spc = SenderIdle
    /\ drains = <<>>
    /\ adds = {}
    /\ refreshes = <<>>
    /\ started = [events |-> 0, flushes |-> 0, sweeps |-> 0, faults |-> FALSE,
                  after_fault |-> FALSE]
    /\ MergeIdle
    /\ DebounceIdle
    /\ WebhookIdle
    /\ MonitorIdle
    /\ SweepIdle
    /\ AutoIdle

NextThreads ==
    \/ \E h \in Handlers, event_path \in ThreadFiles : HStart(h, event_path)
    \/ \E h \in Handlers : HAcquire(h)
    \/ \E h \in Handlers, fault \in BOOLEAN : HMap(h, fault)
    \/ \E h \in Handlers, fault \in BOOLEAN : HWrite(h, fault)
    \/ \E h \in Handlers, fault \in BOOLEAN : HPush(h, fault)
    \/ \E h \in Handlers, fault \in BOOLEAN : HCollect(h, fault)
    \/ \E h \in Handlers : HEnqueue(h)
    \/ \E h \in Handlers : HAdd(h)
    \/ \E h \in Handlers, fault \in BOOLEAN : HSidecars(h, fault)
    \/ \E h \in Handlers : HExit(h)
    \/ FStart
    \/ FCheck
    \/ FAcquire
    \/ FCopy
    \/ FClear
    \/ \E path \in fpc.todo : FRefresh(path)
    \/ SStart
    \/ \E due \in BOOLEAN : SSweep(due)

SpecThreads == InitThreads /\ [][NextThreads]_vars

\* the paths a flush took that were enqueued by an add made after drain number k
AddedAfter(path, k) == \E a \in adds : a.path = path /\ a.epoch >= k

\* C13: atomic drain of the pending refresh set.  Under every interleaving of
\* __add_to_refresh_queue and __process_refresh_queue, a path that was added
\* is still pending or was taken by a drain made after the add (none is
\* lost), a path taken by two drains was added again after the earlier one,
\* and a flush hands each path of its batch to __refresh_emby_file at most
\* once and, when it has returned, exactly once.
C13_AtomicDrain ==
    /\ \A a \in adds :
          \/ a.path \in _refresh_queue
          \/ \E k \in (a.epoch + 1)..Len(drains) : a.path \in drains[k]
    /\ \A k1 \in 1..Len(drains) : \A k2 \in (k1 + 1)..Len(drains) :
          \A path \in drains[k1] \cap drains[k2] : AddedAfter(path, k1)
    /\ \A i \in 1..Len(refreshes) :
          /\ refreshes[i].path \in drains[refreshes[i].drain]
          /\ \A j \in 1..Len(refreshes) :
                (refreshes[i].path = refreshes[j].path
                 /\ refreshes[i].drain = refreshes[j].drain) => i = j
    /\ \A k \in 1..Len(drains) :
          (fpc.pc = "idle" \/ fpc.drain # k)
          => \A path \in drains[k] :
                \E i \in 1..Len(refreshes) :
                    refreshes[i].path = path /\ refreshes[i].drain = k

\* two flushes took the same path, which a handler added again after the
\* first drain, and both flushes have returned
C13_Witness ==
    /\ Len(drains) = 2
    /\ drains[1] \cap drains[2] # {}
    /\ \E a \in adds : a.epoch = 1
    /\ fpc.pc = "idle"
    /\ Len(refreshes) >= 2

\* C16: no lock is held while an outbound call executes: a handler that is
\* writing the pointer file, posting the task push or copying a sidecar does
\* not hold the global lock, and no thread making such a call or a refresh
\* call holds the refresh-queue lock.
C16_NoLockAcrossOutbound ==
    /\ \A h \in Handlers : hpc[h].pc \in OutboundRegions => lock # h /\ _refresh_lock # h
    /\ fpc.pc = "refresh" => _refresh_lock # Flusher

\* the threads that are reading or writing the per-title notification map
MediasUsers ==
    {h \in Handlers : hpc[h].pc = "collect"} \cup (IF spc.pc = "sweeping" THEN {0} ELSE {})

\* C17: the per-title notification map is only read or written under its
\* lock, so a file handler and the periodic sweep never use it at the same
\* time.
C17_LockProtection == Cardinality(MediasUsers) <= 1

\* with lock: the regions a handler is in while it holds the global lock
HeldRegions == TryRegions \ {"waiting"}

\* C19: an exception raised while a file event is handled is caught inside
\* the handler: no handler thread is ended by it, a handler that has
\* returned holds no lock, and the global lock is only ever held by a
\* handler that is still inside its with block and will leave it.
C19_ExceptionIsolation ==
    /\ \A h \in Handlers :
          /\ hpc[h].pc # "dead"
          /\ hpc[h].pc = "idle" => lock # h /\ _refresh_lock # h
          /\ lock = h => hpc[h].pc \in HeldRegions
          /\ _refresh_lock = h => hpc[h].pc = "adding"
    /\ lock \in {0} \cup Handlers

\* a handling raised, a later file event was handled to the end, and every
\* handler has returned with the lock free
C19_Witness ==
    /\ started.after_fault
    /\ \A h \in Handlers : hpc[h].pc = "idle"
    /\ lock = 0

(***************************************************************************)
(* Lkwang88: the rule lines of init_plugin and __async_start_monitor        *)
(***************************************************************************)
MaxRuleLines == 2

\* retries = 12
MonitorRetries == 12

RuleLines == {"/s#/p#/c#f", "/s#/s/p#/c#f", "/m#/mp#/c#f", "/s#/p"}
MonitorRoots == {"/s", "/m"}

\* str.split(sep) for a one-character sep
RECURSIVE Split(_, _, _)
Split(str, sep, cur) ==
    IF str = "" THEN <<cur>>
    ELSE IF SubSeq(str, 1, 1) = sep THEN <<cur>> \o Split(Tail(str), sep, "")
    ELSE Split(Tail(str), sep, cur \o SubSeq(str, 1, 1))

\* str.count(sep)
Count(str, sep) == Len(Split(str, sep, "")) - 1

NotEmpty(part) == part # ""

\* Path(path).parts without the anchor
Parts(path) == SelectSeq(Split(path, "/", ""), NotEmpty)

\* Path(path).is_relative_to(Path(other))
is_relative_to(path, other) ==
    /\ StartsWith(path, "/") <=> StartsWith(other, "/")
    /\ Len(Parts(other)) <= Len(Parts(path))
    /\ SubSeq(Parts(path), 1, Len(Parts(other))) = Parts(other)

\* a slip: a source that is in the map keeps the pointer root it has
PutOnce(map, local_dir, strm_dir) ==
    IF \E i \in 1..Len(map) : map[i].local_dir = local_dir THEN map
    ELSE Append(map, [local_dir |-> local_dir, strm_dir |-> strm_dir])

\* self._strm_dir_conf[local_dir] = strm_dir on a dict that keeps its key order
Put(map, local_dir, strm_dir) ==
    IF \E i \in 1..Len(map) : map[i].local_dir = local_dir
    THEN [i \in 1..Len(map) |->
             IF map[i].local_dir = local_dir
             THEN [local_dir |-> local_dir, strm_dir |-> strm_dir] ELSE map[i]]
    ELSE Append(map, [local_dir |-> local_dir, strm_dir |-> strm_dir])

\* the monitor_conf without its $ and its @ suffix
RuleBody(monitor_conf) ==
    LET plain == IF Count(monitor_conf, "$") = 1
                 THEN Split(monitor_conf, "$", "")[1] ELSE monitor_conf
    IN IF Count(plain, "@") = 1 THEN Split(plain, "@", "")[1] ELSE plain

\* the for loop of init_plugin over the rule lines: the maps are assigned
\* first, the is_relative_to test follows them and its continue ends an
\* iteration that has nothing left to do
RECURSIVE LoadRules(_, _)
LoadRules(confs, map) ==
    IF confs = <<>> THEN map
    ELSE IF Head(confs) = "" \/ StartsWith(Head(confs), "#") THEN LoadRules(Tail(confs), map)
    ELSE LET fields == Split(RuleBody(Head(confs)), "#", "")
         IN IF Len(fields) # 4 THEN LoadRules(Tail(confs), map)
            ELSE LET stored == Put(map, fields[1], fields[2])
                 IN IF fields[2] # "" /\ is_relative_to(fields[2], fields[1])
                    THEN LoadRules(Tail(confs), stored)
                    ELSE LoadRules(Tail(confs), stored)

Keys(map) == {map[i].local_dir : i \in 1..Len(map)}

\* a slip: the counter is not decremented
NoCountdown(retries) == retries

\* retries -= 1
Countdown(retries) == retries - 1

\* the for loop of __async_start_monitor goes to the next key, or ends
NextRoot ==
    IF mpc.i = Len(_strm_dir_conf) THEN [pc |-> "done", i |-> mpc.i, retries |-> NoInt]
    ELSE [pc |-> "probe", i |-> mpc.i + 1, retries |-> MonitorRetries]

Root == _strm_dir_conf[mpc.i].local_dir

\* init_plugin: the rule lines are read and the monitor thread is started
InitPlugin ==
    /\ mpc.pc = "loading"
    /\ _strm_dir_conf' = LoadRules(monitor_confs, <<>>)
    /\ mpc' = [pc |-> "sleep", i |-> 0, retries |-> NoInt]
    /\ UNCHANGED <<monitor_confs, mounted, _observer, mlog>>
    /\ UNCHANGED monOthers

\* time.sleep(10), then the first key
MSleep ==
    /\ mpc.pc = "sleep"
    /\ mpc' = NextRoot
    /\ UNCHANGED <<monitor_confs, _strm_dir_conf, mounted, _observer, mlog>>
    /\ UNCHANGED monOthers

\* while not os.path.exists(local_dir) and retries > 0: sleep, retries -= 1
MWait ==
    /\ mpc.pc = "probe"
    /\ Root \notin mounted /\ mpc.retries > 0
    /\ mpc' = [mpc EXCEPT !.retries = Countdown(@)]
    /\ UNCHANGED <<monitor_confs, _strm_dir_conf, mounted, _observer, mlog>>
    /\ UNCHANGED monOthers

\* the while loop ends
MLeave ==
    /\ mpc.pc = "probe"
    /\ ~(Root \notin mounted /\ mpc.retries > 0)
    /\ mpc' = [mpc EXCEPT !.pc = "check"]
    /\ UNCHANGED <<monitor_confs, _strm_dir_conf, mounted, _observer, mlog>>
    /\ UNCHANGED monOthers

\* if not os.path.exists(local_dir): continue
MCheck ==
    /\ mpc.pc = "check"
    /\ IF Root \notin mounted
       THEN mpc' = NextRoot /\ mlog' = [mlog EXCEPT !.skipped = @ \cup {Root}]
       ELSE mpc' = [mpc EXCEPT !.pc = "start"] /\ UNCHANGED mlog
    /\ UNCHANGED <<monitor_confs, _strm_dir_conf, mounted, _observer>>
    /\ UNCHANGED monOthers

\* the observer is created, appended, scheduled and started; an exception
\* of schedule or start is caught and logged
MStart(fails) ==
    /\ mpc.pc = "start"
    /\ _observer' = Append(_observer, [root |-> Root, alive |-> ~fails])
    /\ mpc' = NextRoot
    /\ UNCHANGED <<monitor_confs, _strm_dir_conf, mounted, mlog>>
    /\ UNCHANGED monOthers

\* scan: every key of the rule map that exists is walked
Scan ==
    /\ mpc.pc # "loading"
    /\ mlog' = [mlog EXCEPT !.scanned = @ \cup (Keys(_strm_dir_conf) \cap mounted)]
    /\ UNCHANGED <<monitor_confs, _strm_dir_conf, mpc, mounted, _observer>>
    /\ UNCHANGED monOthers

\* the environment: a source root appears
Mount(root) ==
    /\ root \notin mounted
    /\ mounted' = mounted \cup {root}
    /\ mlog' = [mlog EXCEPT !.up = @ \cup {root}]
    /\ UNCHANGED <<monitor_confs, _strm_dir_conf, mpc, _observer>>
    /\ UNCHANGED monOthers

\* the environment: a source root disappears
Unmount(root) ==
    /\ root \in mounted
    /\ mounted' = mounted \ {root}
    /\ mlog' = [mlog EXCEPT !.down = @ \cup {root}]
    /\ UNCHANGED <<monitor_confs, _strm_dir_conf, mpc, _observer>>
    /\ UNCHANGED monOthers

RuleSeqs == UNION {[1..n -> RuleLines] : n \in 1..MaxRuleLines}

InitMonitor ==
    /\ monitor_confs \in RuleSeqs
    /\ _strm_dir_conf = <<>>
    /\ mpc = [pc |-> "loading", i |-> 0, retries |-> NoInt]
    /\ mounted \in SUBSET MonitorRoots
    /\ _observer = <<>>
    /\ mlog = [skipped |-> {}, scanned |-> {}, up |-> mounted, down |-> MonitorRoots \ mounted]
    /\ MergeIdle
    /\ SyncIdle
    /\ DebounceIdle
    /\ WebhookIdle
    /\ ThreadsIdle
    /\ SweepIdle
    /\ AutoIdle

MonitorStep ==
    \/ MSleep
    \/ MWait
    \/ MLeave
    \/ MCheck
    \/ \E fails \in BOOLEAN : MStart(fails)

NextMonitor ==
    \/ InitPlugin
    \/ MSleep
    \/ MWait
    \/ MLeave
    \/ MCheck
    \/ \E fails \in BOOLEAN : MStart(fails)
    \/ Scan
    \/ \E root \in MonitorRoots : Mount(root)
    \/ \E root \in MonitorRoots : Unmount(root)

SpecMonitor == InitMonitor /\ [][NextMonitor]_vars

\* the monitor thread is scheduled: a sleep returns, a started thread runs on
SpecMonitorFair == SpecMonitor /\ WF_vars(MonitorStep)

\* C15: after the configuration is loaded, no rule of the rule map, and so
\* no root that is watched or scanned, has a pointer root that is a
\* descendant of its source root.
C15_MonitorRuleInvariant ==
    mpc.pc # "loading"
    => \A i \in 1..Len(_strm_dir_conf) :
          ~is_relative_to(_strm_dir_conf[i].strm_dir, _strm_dir_conf[i].local_dir)

Observed(root) == \E k \in 1..Len(_observer) : _observer[k].root = root

\* the monitor-start task has ended: every configured root was either
\* skipped or given an observer; a root that was never available was
\* skipped, a root that was always available was given its observer
MonitorReady ==
    \A root \in Keys(_strm_dir_conf) :
        /\ (root \in mlog.skipped) # Observed(root)
        /\ root \notin mlog.up => root \in mlog.skipped
        /\ root \notin mlog.down => Observed(root)

\* C20: for every pattern of root availability the monitor-start task ends,
\* after at most MonitorRetries waits per root; a root that never became
\* available is skipped, a root that exists gets its observer, also after a
\* root that was skipped or whose subscription failed.
C20_MountReadiness ==
    /\ [](mpc.pc = "probe" => mpc.retries \in 0..MonitorRetries)
    /\ [](mpc.pc = "done" => MonitorReady)
    /\ (mpc.pc = "sleep") ~> (mpc.pc = "done")

\* the first root never appeared and was skipped after all its retries, the
\* subscription of no root before the second stopped it, and the second
\* root has a running observer
C20_Witness ==
    /\ mpc.pc = "done"
    /\ Len(_strm_dir_conf) = 2
    /\ _strm_dir_conf[1].local_dir \notin mlog.up
    /\ _strm_dir_conf[1].local_dir \in mlog.skipped
    /\ \E k \in 1..Len(_observer) :
          _observer[k].root = _strm_dir_conf[2].local_dir /\ _observer[k].alive

\* the conditions under which send() has to reject an event
MustReject(e) ==
    \/ ~wconf.enabled
    \/ ~e.has_data
    \/ e.event \notin allowed_types(wconf.types)

\* C18: an inbound event is rejected when the plugin is disabled, the
\* payload is absent or the event type is not in the allow-list made of the
\* configured type strings split on '|': send() then dispatches no
\* notification, buffers nothing, hands nothing on, and leaves the dedup
\* cache as it was.
C18_WebhookRejection ==
    [][\A e \in DedupEvents :
          (MustReject(e) /\ Send(e))
          => /\ notifications' = notifications
             /\ _pending_messages' = _pending_messages
             /\ processing' = processing
             /\ _webhook_msg_keys' = _webhook_msg_keys]_vars

\* the debounce timers that are started, not cancelled and not yet fired
ArmedTimers == {id \in 1..Len(timers) : timers[id].state = "waiting"}

\* C22: a reset of the debounce timer cancels the pending timer, so at most
\* one debounce timer is armed at any time.
C22_SingleDebounceTimer == Cardinality(ArmedTimers) <= 1

\* an event was delivered by this step and reached the dedup step of send()
ReachedDedup == received'.count = received.count + 1 /\ received'.route # "rejected"

\* C25: an event that reaches the dedup step first removes every cache entry
\* whose expiry is not later than the current time, so a stop for a key whose
\* last insertion or refresh is 600 s or more ago is dispatched and not
\* dropped as a duplicate.
C25_TtlExpiry ==
    [][ReachedDedup
       => (/\ \A k \in DOMAIN _webhook_msg_keys' :
                 _webhook_msg_keys'[k] > wnow
                 /\ (k # received'.key =>
                        k \in DOMAIN _webhook_msg_keys
                        /\ _webhook_msg_keys'[k] = _webhook_msg_keys[k])
           /\ (/\ received'.stop
               /\ received'.key \in DOMAIN touched
               /\ wnow >= touched[received'.key] + DEFAULT_EXPIRATION_TIME)
              => (/\ received'.route = "single"
                  /\ Len(processing') = Len(processing) + 1))]_vars

\* a stop was dispatched and cached at 0; the stop for the same key that
\* arrives exactly at the expiry is handed on for dispatch
C25_Witness ==
    /\ received.count = 2
    /\ received.stop
    /\ received.route = "single"
    /\ received.key \in DOMAIN touched
    /\ touched[received.key] = 0
    /\ wnow = DEFAULT_EXPIRATION_TIME
    /\ Len(notifications) = 1
    /\ Len(processing) = 1

\* C26: at most one notification is dispatched for identical stop events
\* delivered concurrently or back to back within the time to live: when a
\* stop is dispatched, no stop with the same key has been dispatched whose
\* cache entry, as last written or refreshed, is still within its time to
\* live.
C26_OneStopPerKey ==
    [][\A i \in 1..Len(processing) :
          (IsStop(processing[i].msg.event) /\ ProcessSingle(i, "none"))
          => ~(/\ \E j \in 1..Len(notifications) : notifications[j].key = processing[i].key
               /\ processing[i].key \in DOMAIN touched
               /\ wnow < touched[processing[i].key] + DEFAULT_EXPIRATION_TIME)]_vars

\* item_id, client and user_name as they stand at the head of a dedup key
Triple(e) == e.item_id \o "-" \o e.client \o "-" \o e.user_name \o "-"

\* the notifications dispatched for the item, client and user of an event
NotesOf(e) == {j \in 1..Len(notifications) : StartsWith(notifications[j].key, Triple(e))}

\* the latest notification dispatched for the item, client and user of an
\* event is one of a start-class event
StartedLast(e) ==
    \E j \in NotesOf(e) :
        /\ \A k \in NotesOf(e) : k <= j
        /\ Contains(Lower(From(notifications[j].key, Len(Triple(e)) + 1)), "start")

\* C27: after a start-class event of an item, client and user has been
\* dispatched, the next stop-class event of the same three is not dropped as
\* a duplicate, whatever the dedup cache still holds.
C27_StartReenablesStop ==
    [][\A e \in DedupEvents :
          (IsStop(e) /\ StartedLast(e) /\ Send(e)) => received'.route # "duplicate"]_vars

(***************************************************************************)
(* wd99: the routing of accepted events of every kind                      *)
(***************************************************************************)
RouteEvents ==
    { Episode("s1", 1, 1),
      WebhookEvent("library.new", "emby", "TV", "x1", "", "", None, 1, 3),
      WebhookEvent("library.new", "emby", "MOV", "m1", "", "", None, NoInt, NoInt),
      WebhookEvent("playback.start", "emby", "MOV", "m1", "web", "ann", None, NoInt, NoInt),
      WebhookEvent("system.webhooktest", "emby", "", "", "", "", None, NoInt, NoInt),
      WebhookEvent("user.authenticated", "emby", "", "", "web", "ann", None, NoInt, NoInt) }

RouteTypes ==
    <<"library.new", "playback.start|media.play|PlaybackStart",
      "user.authenticated|user.authenticationfailed",
      "system.webhooktest|system.notificationtest">>

RouteConfigs ==
    { WebhookConfig(TRUE, {"emby"}, RouteTypes, TRUE),
      WebhookConfig(TRUE, {"emby"}, RouteTypes, FALSE) }

InitRoute == InitWebhook(RouteConfigs)

NextRoute ==
    \/ \E e \in RouteEvents : Send(e)
    \/ AggregateRestart
    \/ \E i \in 1..MaxInflight, fault \in WebFaults : ProcessSingle(i, fault)
    \/ \E id \in 1..Len(wtimers) : WTimerExpire(id)
    \/ \E id \in 1..Len(wtimers), fault \in {"none", "post"} : SendAggregated(id, fault)
    \/ \E t \in 1..MaxAggregateClock : WTick(t)

SpecRoute == InitRoute /\ [][NextRoute]_vars

\* the notification a step has dispatched
NewNote == notifications'[Len(notifications')]
Dispatched == Len(notifications') = Len(notifications) + 1
OneEvent(kind, n) == NewNote.kind = kind /\ NewNote.events = {n}

\* series content, aggregation enabled, a series id that resolves
Aggregable(e) ==
    /\ wconf.aggregate_enabled
    /\ e.event = "library.new"
    /\ e.item_type \in {"TV", "SHOW"}
    /\ e.series_id # None

\* C28: an accepted event is routed by its type.  A test event and a login
\* event are dispatched by their own formatters and never buffered; a
\* library.new event of series content, with aggregation enabled and a series
\* id, is added to the buffer of its series and not dispatched; every other
\* accepted event is handed to the single-event dispatcher, which posts
\* exactly one notification of that one event; a buffer that holds one event
\* when its timer flushes it is posted as a single-event notification.
C28_WebhookRouting ==
    [][/\ \A e \in RouteEvents :
            (ReachedDedup /\ received'.key = expiring_key(e) /\ Send(e))
            => IF IsTest(e) \/ IsLogin(e)
               THEN /\ Dispatched
                    /\ OneEvent(IF IsTest(e) THEN "test" ELSE "login", received'.count)
                    /\ _pending_messages' = _pending_messages
                    /\ processing' = processing
               ELSE IF Aggregable(e)
               THEN /\ notifications' = notifications
                    /\ processing' = processing
                    /\ HasSeries(_pending_messages', e.series_id)
                    /\ \E k \in 1..Len(MsgsOf(_pending_messages', e.series_id)) :
                          MsgsOf(_pending_messages', e.series_id)[k].n = received'.count
               ELSE /\ notifications' = notifications
                    /\ _pending_messages' = _pending_messages
                    /\ Len(processing') = Len(processing) + 1
                    /\ processing'[Len(processing')].msg.n = received'.count
       /\ \A i \in 1..Len(processing) :
            (Len(processing') < Len(processing) /\ ProcessSingle(i, "none"))
            => Dispatched /\ OneEvent("single", processing[i].msg.n)
       /\ \A id \in 1..Len(wtimers) :
            (/\ wtimers[id].state = "calling"
             /\ HasSeries(_pending_messages, wtimers[id].series)
             /\ Len(MsgsOf(_pending_messages, wtimers[id].series)) = 1
             /\ SendAggregated(id, "none"))
            => (/\ Dispatched
                /\ OneEvent("single", MsgsOf(_pending_messages, wtimers[id].series)[1].n)
                /\ ~HasSeries(_pending_messages', wtimers[id].series))]_vars

\* a test event went to its formatter, an episode without a series id was
\* posted directly, and an episode buffered alone was posted as a single
\* event when its timer fired
C28_Witness ==
    /\ received.count = 3
    /\ \E i, j, k \in 1..Len(notifications) :
          /\ notifications[i].kind = "test"
          /\ notifications[j].kind = "single" /\ notifications[j].series = None
          /\ notifications[k].kind = "single" /\ notifications[k].series = "s1"
    /\ _pending_messages = <<>>
    /\ processing = <<>>

\* the regions of __create_strm_file that follow the write of the pointer
WrittenRegions == {"push", "collect", "enqueue", "adding"}

\* C30: when __create_strm_file has written the pointer file, with refresh
\* enabled and media servers configured, it returns True and the parent
\* directory of the pointer is in the refresh queue when it returns, also
\* when the task push or the notification bookkeeping raised.
C30_WrittenPointerQueued ==
    [][\A h \in Handlers :
          (hpc[h].pc \in WrittenRegions /\ hpc'[h].pc \in {"sidecars", "exit"})
          => (/\ hpc'[h].created
              /\ PathParent(ThreadPointer(h)) \in _refresh_queue')]_vars

(***************************************************************************)
(* Lkwang88 / CloudStrmCompanionLkwang88: send_msg, the sweep of the       *)
(* per-title notification map, next to __collect_notify_info               *)
(***************************************************************************)
MaxRecords == 3
MaxSweepJobs == 2
MaxSweepClock == 3
SweepInterval == 1

\* the pointer files whose creation is recorded
SweepFiles == {"/ptr/ShowX/S01E01.strm", "/ptr/ShowX/S01E02.strm", "/ptr/Film/Film.strm"}

SweepConfigs ==
    {[plugin |-> name, notify |-> TRUE, interval |-> SweepInterval]
     : name \in {"Lkwang88", "CloudStrmCompanionLkwang88"}}

\* the keys of the titles of these files
SweepKeys == {MediaKey(MetaInfoPath(strm_file)) : strm_file \in SweepFiles}

InSeq(x, seq) == \E i \in 1..Len(seq) : seq[i] = x

\* media_list["time"] = datetime.now()
Stamp(medias, key, t) ==
    [k \in DOMAIN medias |->
        IF k = key
        THEN [episodes |-> medias[k].episodes, type |-> medias[k].type, time |-> t]
        ELSE medias[k]]

\* __collect_notify_info at time t
collect_at(medias, strm_file, t) ==
    Stamp(collect_notify_info(medias, strm_file), MediaKey(MetaInfoPath(strm_file)), t)

\* (datetime.now() - last_update_time).total_seconds() > int(self._interval)
\* or str(mtype) == "movie"
Due(entry, t) == t - entry.time > conf.interval \/ entry.type = "movie"

SweeperIdle(done) ==
    [pc |-> "idle", keys |-> {}, key |-> None, episodes |-> <<>>, upto |-> 0,
     snap |-> <<>>, at |-> 0, flushed |-> {}, done |-> done]

\* a file handler calls __collect_notify_info for a pointer it has written
Record(strm_file) ==
    /\ Cardinality(recorded) < MaxRecords
    /\ _medias' = collect_at(_medias, strm_file, mnow)
    /\ recorded' = recorded \cup
           {[key |-> MediaKey(MetaInfoPath(strm_file)),
             episode |-> MetaInfoPath(strm_file).begin_episode,
             n |-> Cardinality(recorded) + 1]}
    /\ UNCHANGED <<conf, spc, mnow, reports>>
    /\ UNCHANGED sweepOthers

\* the interval job calls send_msg: the method of CloudStrmCompanionLkwang88
\* has no body; Lkwang88 returns on an empty map and else takes
\* list(self._medias.keys())
SweepStart ==
    /\ spc.pc = "idle"
    /\ spc.done < MaxSweepJobs
    /\ spc' = IF conf.plugin = "CloudStrmCompanionLkwang88" \/ DOMAIN _medias = {}
              THEN [spc EXCEPT !.done = @ + 1]
              ELSE [spc EXCEPT !.pc = "loop", !.keys = DOMAIN _medias,
                               !.snap = _medias, !.at = mnow]
    /\ UNCHANGED <<conf, _medias, mnow, reports, recorded>>
    /\ UNCHANGED sweepOthers

\* one pass of the for loop up to the test of line 625: the entry is read,
\* an entry that is not due is left; for one that is due the episodes and
\* the file count are taken
SweepRead(key) ==
    /\ spc.pc = "loop"
    /\ key \in spc.keys
    /\ spc' = IF key \in DOMAIN _medias /\ Due(_medias[key], mnow)
              THEN [spc EXCEPT !.pc = "sending", !.key = key,
                               !.episodes = _medias[key].episodes,
                               !.upto = Cardinality(recorded)]
              ELSE [spc EXCEPT !.keys = @ \ {key}]
    /\ UNCHANGED <<conf, _medias, mnow, reports, recorded>>
    /\ UNCHANGED sweepOthers

\* lines 627-645: recognize_media and send_transfer_message, then the entry
\* is deleted
SweepSend ==
    /\ spc.pc = "sending"
    /\ reports' = IF conf.notify
                  THEN Append(reports,
                              [key |-> spc.key, episodes |-> spc.episodes, upto |-> spc.upto,
                               file_count |-> IF spc.episodes # <<>>
                                              THEN Len(spc.episodes) ELSE 1])
                  ELSE reports
    /\ _medias' = [k \in DOMAIN _medias \ {spc.key} |-> _medias[k]]
    /\ spc' = [spc EXCEPT !.pc = "loop", !.keys = @ \ {spc.key}, !.key = None,
                          !.episodes = <<>>, !.upto = 0, !.flushed = @ \cup {spc.key}]
    /\ UNCHANGED <<conf, mnow, recorded>>
    /\ UNCHANGED sweepOthers

\* the for loop has ended, send_msg returns
SweepEnd ==
    /\ spc.pc = "loop"
    /\ spc.keys = {}
    /\ spc' = SweeperIdle(spc.done + 1)
    /\ UNCHANGED <<conf, _medias, mnow, reports, recorded>>
    /\ UNCHANGED sweepOthers

SweepTick ==
    /\ mnow < MaxSweepClock
    /\ mnow' = mnow + 1
    /\ UNCHANGED <<conf, _medias, spc, reports, recorded>>
    /\ UNCHANGED sweepOthers

InitSweep ==
    /\ conf \in SweepConfigs
    /\ _medias = <<>>
    /\ spc = SweeperIdle(0)
    /\ mnow = 0
    /\ reports = <<>>
    /\ recorded = {}
    /\ disk = <<>>
    /\ _refresh_queue = {}
    /\ pushes = <<>>
    /\ last = None
    /\ ncalls = 0
    /\ lock = 0
    /\ _refresh_lock = 0
    /\ hpc = <<>>
    /\ fpc = None
    /\ drains = <<>>
    /\ adds = {}
    /\ refreshes = <<>>
    /\ started = None
    /\ MergeIdle
    /\ DebounceIdle
    /\ WebhookIdle
    /\ MonitorIdle
    /\ AutoIdle

NextSweep ==
    \/ \E strm_file \in SweepFiles : Record(strm_file)
    \/ SweepStart
    \/ \E key \in SweepKeys : SweepRead(key)
    \/ SweepSend
    \/ SweepEnd
    \/ SweepTick

SpecSweep == InitSweep /\ [][NextSweep]_vars

\* the map and the time a sweep that ends in this step began with
SweepSnap == IF spc.pc = "idle" THEN _medias ELSE spc.snap
SweepAt == IF spc.pc = "idle" THEN mnow ELSE spc.at

\* C21: in each sweep every entry that is a movie, or whose last update is
\* older than the quiet period, is notified once and removed, and every
\* other entry is left as it is; a flushed key is no longer in the map.
C21_NotificationSweep ==
    [][/\ (spc.pc = "loop" /\ spc'.pc = "loop" /\ spc'.keys # spc.keys)
          => (/\ _medias' = _medias
              /\ reports' = reports
              /\ \A key \in spc.keys \ spc'.keys :
                    key \in DOMAIN _medias => ~Due(_medias[key], mnow))
       /\ (spc.pc = "sending" /\ spc'.pc = "loop")
          => (/\ Len(reports') = Len(reports) + 1
              /\ reports'[Len(reports')].key = spc.key
              /\ spc.key \notin DOMAIN _medias'
              /\ \A k \in DOMAIN _medias \ {spc.key} :
                    k \in DOMAIN _medias' /\ _medias'[k] = _medias[k])
       /\ (spc'.done = spc.done + 1)
          => \A k \in DOMAIN SweepSnap :
                Due(SweepSnap[k], SweepAt)
                => \/ k \in spc.flushed
                   \/ /\ SweepSnap[k].type # "movie"
                      /\ k \in DOMAIN _medias
                      /\ _medias[k].time >= SweepAt]_vars

\* C29: no recorded episode is lost by the sweep: an episode that was
\* recorded is still in the entry of its title, or is in a notification whose
\* episodes were taken after it was recorded; and an episode is in two
\* notifications of its title only when it was recorded again in between.
C29_NoEpisodeLost ==
    /\ \A rec \in recorded :
          rec.episode # NoInt
          => \/ rec.key \in DOMAIN _medias /\ InSeq(rec.episode, _medias[rec.key].episodes)
             \/ \E i \in 1..Len(reports) :
                   /\ reports[i].key = rec.key
                   /\ InSeq(rec.episode, reports[i].episodes)
                   /\ reports[i].upto >= rec.n
    /\ \A i \in 1..Len(reports) : \A j \in (i + 1)..Len(reports) :
          reports[i].key = reports[j].key
          => \A k \in 1..Len(reports[i].episodes) :
                InSeq(reports[i].episodes[k], reports[j].episodes)
                => \E rec \in recorded :
                      /\ rec.key = reports[i].key
                      /\ rec.episode = reports[i].episodes[k]
                      /\ reports[i].upto < rec.n /\ rec.n <= reports[j].upto

(***************************************************************************)
(* wd99: _aggregate_tv_episodes and _send_aggregated_message step by step, *)
(* as the two threads run them without a lock                              *)
(***************************************************************************)

\* no thread is inside _aggregate_tv_episodes; list is the timer whose thread
\* holds the list the sender works on, NoTimer while it is the one in the map
NotAggregating == [series |-> None, pc |-> "idle", list |-> NoTimer, msg |-> None]

\* send() up to its call of _aggregate_tv_episodes(series_id, event_info)
SendToAggregate(e) ==
    /\ received.count < MaxWebhookEvents
    /\ Route(e) = "aggregate"
    /\ aggregating = NotAggregating
    /\ received' = [count |-> received.count + 1, route |-> "aggregate",
                    key |-> expiring_key(e), stop |-> FALSE]
    /\ _webhook_msg_keys' = clean_expired_cache(_webhook_msg_keys, wnow)
    /\ arrivals' = [arrivals EXCEPT ![e.series_id] =
                      [last |-> wnow, window |-> EpisodeWindow(e.series_id, wnow)]]
    /\ aggregating' = [series |-> e.series_id, pc |-> "check", list |-> NoTimer,
                       msg |-> Msg(e, EpisodeWindow(e.series_id, wnow))]
    /\ UNCHANGED <<wnow, wconf, _pending_messages, _aggregate_timers, wtimers, processing,
                   notifications, touched, stopped>>
    /\ UNCHANGED webOthers

\* lines 276-277: if series_id not in self._pending_messages: ... = []
AggregateCheck ==
    /\ aggregating.pc = "check"
    /\ _pending_messages' = IF HasSeries(_pending_messages, aggregating.series)
                            THEN _pending_messages
                            ELSE Append(_pending_messages,
                                        [series |-> aggregating.series, msgs |-> <<>>])
    /\ aggregating' = [aggregating EXCEPT !.pc = "lookup"]
    /\ UNCHANGED <<wnow, wconf, _webhook_msg_keys, _aggregate_timers, wtimers, processing,
                   notifications, received, touched, arrivals, stopped>>
    /\ UNCHANGED webOthers

\* line 279, self._pending_messages[series_id]: the list of the entry is
\* taken, or KeyError leaves _aggregate_tv_episodes for the except of send()
AggregateLookup ==
    /\ aggregating.pc = "lookup"
    /\ aggregating' = IF HasSeries(_pending_messages, aggregating.series)
                      THEN [aggregating EXCEPT !.pc = "append"]
                      ELSE NotAggregating
    /\ UNCHANGED <<wnow, wconf, _webhook_msg_keys, _pending_messages, _aggregate_timers,
                   wtimers, processing, notifications, received, touched, arrivals, stopped>>
    /\ UNCHANGED webOthers

\* line 279, .append(event_info), on the list taken by the lookup: the one in
\* the map, or the one a timer thread has popped since
AggregateAppend ==
    /\ aggregating.pc = "append"
    /\ IF aggregating.list = NoTimer
       THEN /\ _pending_messages' =
                 AppendMsg(_pending_messages, aggregating.series, aggregating.msg)
            /\ UNCHANGED wtimers
       ELSE /\ wtimers' = [wtimers EXCEPT ![aggregating.list].taken =
                              Append(@, aggregating.msg)]
            /\ UNCHANGED _pending_messages
    /\ aggregating' = [aggregating EXCEPT !.pc = "arm", !.list = NoTimer]
    /\ UNCHANGED <<wnow, wconf, _webhook_msg_keys, _aggregate_timers, processing,
                   notifications, received, touched, arrivals, stopped>>
    /\ UNCHANGED webOthers

\* lines 281-288: cancel the series' timer, start a new one
AggregateArm ==
    /\ aggregating.pc = "arm"
    /\ LET sid == aggregating.series
           old == IF sid \in DOMAIN _aggregate_timers
                  THEN cancel(wtimers, _aggregate_timers[sid]) ELSE wtimers
       IN  /\ wtimers' = Append(old, [series |-> sid, state |-> "waiting",
                                      deadline |-> wnow + wconf.aggregate_time,
                                      taken |-> <<>>])
           /\ _aggregate_timers' = [k \in DOMAIN _aggregate_timers \cup {sid} |->
                                      IF k = sid THEN Len(wtimers) + 1
                                      ELSE _aggregate_timers[k]]
    /\ aggregating' = NotAggregating
    /\ UNCHANGED <<wnow, wconf, _webhook_msg_keys, _pending_messages, processing,
                   notifications, received, touched, arrivals, stopped>>
    /\ UNCHANGED webOthers

\* _send_aggregated_message, lines 364-368: the membership test, the pop of
\* the list and of the timer.  The list a sender has looked up and not yet
\* appended to is from now on the one this thread holds.
TimerPop(id) ==
    /\ wtimers[id].state = "calling"
    /\ LET sid == wtimers[id].series IN
         IF ~HasSeries(_pending_messages, sid)
         THEN /\ wtimers' = [wtimers EXCEPT ![id].state = "done"]
              /\ UNCHANGED <<_pending_messages, _aggregate_timers, aggregating>>
         ELSE /\ wtimers' = [wtimers EXCEPT ![id].state = "popped",
                                            ![id].taken = MsgsOf(_pending_messages, sid)]
              /\ _pending_messages' = PopSeries(_pending_messages, sid)
              /\ _aggregate_timers' = [k \in DOMAIN _aggregate_timers \ {sid} |->
                                         _aggregate_timers[k]]
              /\ aggregating' = IF aggregating.pc = "append" /\ aggregating.series = sid
                                THEN [aggregating EXCEPT !.list = id]
                                ELSE aggregating
    /\ UNCHANGED <<wnow, wconf, _webhook_msg_keys, processing, notifications, received,
                   touched, arrivals, stopped>>
    /\ UNCHANGED webOthers

\* _send_aggregated_message, lines 370-422: the message is made of what the
\* list holds now, and posted
TimerDispatch(id) ==
    /\ wtimers[id].state = "popped"
    /\ wtimers' = [wtimers EXCEPT ![id].state = "done"]
    /\ notifications' =
          IF wtimers[id].taken = <<>> THEN notifications
          ELSE Append(notifications,
                      Notification(IF Len(wtimers[id].taken) = 1 THEN "single"
                                   ELSE "aggregated",
                                   wtimers[id].series, wtimers[id].taken, FALSE))
    /\ UNCHANGED <<wnow, wconf, _webhook_msg_keys, _pending_messages, _aggregate_timers,
                   aggregating, processing, received, touched, arrivals, stopped>>
    /\ UNCHANGED webOthers

InitInterleave ==
    /\ wnow = 0
    /\ wconf \in AggregateConfigs
    /\ _webhook_msg_keys = <<>>
    /\ _pending_messages = <<>>
    /\ _aggregate_timers = <<>>
    /\ wtimers = <<>>
    /\ aggregating = NotAggregating
    /\ processing = <<>>
    /\ notifications = <<>>
    /\ received = NoEvent
    /\ touched = <<>>
    /\ arrivals = [sid \in SeriesIds |-> [last |-> -1, window |-> 0]]
    /\ stopped = NotStopped
    /\ MergeIdle
    /\ SyncIdle
    /\ DebounceIdle
    /\ ThreadsIdle
    /\ MonitorIdle
    /\ SweepIdle
    /\ AutoIdle

NextInterleave ==
    \/ \E e \in AggregateEvents : SendToAggregate(e)
    \/ AggregateCheck
    \/ AggregateLookup
    \/ AggregateAppend
    \/ AggregateArm
    \/ \E id \in 1..Len(wtimers) : WTimerExpire(id)
    \/ \E id \in 1..Len(wtimers) : TimerPop(id)
    \/ \E id \in 1..Len(wtimers) : TimerDispatch(id)
    \/ \E t \in 1..MaxAggregateClock : WTick(t)

SpecInterleave == InitInterleave /\ [][NextInterleave]_vars

\* the notifications that report the n-th event
NotesWith(n) == {i \in 1..Len(notifications) : n \in notifications[i].events}

\* C23: however the steps of _aggregate_tv_episodes interleave with those of
\* the series' timer in _send_aggregated_message, every event appended to the
\* buffer of a series is in exactly one dispatched notification: once the
\* timer that popped the buffer has dispatched, each event of that buffer is
\* in one notification, and no event is in two.
C23_NoAggregatedEventLost ==
    /\ \A id \in 1..Len(wtimers) :
          wtimers[id].state = "done"
          => \A j \in 1..Len(wtimers[id].taken) :
                Cardinality(NotesWith(wtimers[id].taken[j].n)) = 1
    /\ \A n \in 1..received.count : Cardinality(NotesWith(n)) <= 1

(***************************************************************************)
(* mediaserverrefresh: the refresher whose refresh() converts the          *)
(* configured delay without a try.  The block of _flush_queue under the    *)
(* lock is the one of mediaserverrefresh88 (FlushDrain).                   *)
(***************************************************************************)

\* what the text field "delay" of the form can hold
DelayTexts == {"", "2", "abc"}

DigitTexts == {ToString(d) : d \in 0..9}

\* float() accepts the text
IsNumber(text) ==
    text # "" /\ \A i \in 1..Len(text) : SubSeq(text, i, i) \in DigitTexts

\* float() of a text of digits
RECURSIVE float(_)
float(text) ==
    IF text = "" THEN 0
    ELSE 10 * float(SubSeq(text, 1, Len(text) - 1))
         + (CHOOSE d \in 0..9 : ToString(d) = SubSeq(text, Len(text), Len(text)))

\* refresh(), lines 189-191: the item is appended under the lock
RefreshQueue(dir) ==
    /\ Len(_pending_items) < MaxRefreshEvents
    /\ Len(timers) < MaxRefreshEvents
    /\ ~refreshing.active
    /\ _lock = Free
    /\ _lock' = EventThread
    /\ _pending_items' = Append(_pending_items,
                                [target_path |-> dir, at |-> dnow, window |-> 0])
    /\ refreshing' = [active |-> TRUE, last_arrival |-> dnow, window |-> 0]
    /\ UNCHANGED <<dnow, _delay, _timer, timers, lastFlush, requests>>
    /\ UNCHANGED debOthers

\* refresh(), lines 192-198: _stop_timer(), then
\* float(self._delay) if self._delay else 5.0, a new Timer; ValueError of
\* float() leaves the with block after the old timer was stopped
RefreshArm ==
    /\ refreshing.active
    /\ _lock = EventThread
    /\ IF _delay # "" /\ ~IsNumber(_delay)
       THEN /\ timers' = stop_timer(timers, _timer)
            /\ _timer' = NoTimer
       ELSE /\ timers' = Append(stop_timer(timers, _timer),
                                [deadline |-> dnow + (IF _delay # "" THEN float(_delay)
                                                      ELSE 5),
                                 state |-> "waiting", batch |-> {}])
            /\ _timer' = Len(timers) + 1
    /\ _lock' = Free
    /\ refreshing' = [refreshing EXCEPT !.active = FALSE]
    /\ UNCHANGED <<dnow, _delay, _pending_items, lastFlush, requests>>
    /\ UNCHANGED debOthers

\* _flush_queue, lines 210-229: outside the lock, every service is handed the
\* items taken; an exception of one is logged
FlushRefresh(id, services) ==
    /\ timers[id].state = "flushing"
    /\ timers' = [timers EXCEPT ![id].state = "done"]
    /\ requests' = requests \o
          [i \in 1..Len(services) |->
              [server |-> services[i].name,
               paths |-> {item.path : item \in timers[id].batch}]]
    /\ UNCHANGED <<dnow, _delay, _pending_items, _timer, _lock, refreshing, lastFlush>>
    /\ UNCHANGED debOthers

InitRefresher ==
    /\ dnow = 0
    /\ _delay \in DelayTexts
    /\ _pending_items = <<>>
    /\ _timer = NoTimer
    /\ timers = <<>>
    /\ _lock = Free
    /\ refreshing = [active |-> FALSE, last_arrival |-> -1, window |-> 0]
    /\ lastFlush = NoFlush
    /\ requests = <<>>
    /\ MergeIdle
    /\ SyncIdle
    /\ WebhookIdle
    /\ ThreadsIdle
    /\ MonitorIdle
    /\ SweepIdle
    /\ AutoIdle

NextRefresher ==
    \/ \E dir \in TargetDirs : RefreshQueue(dir)
    \/ RefreshArm
    \/ \E id \in 1..Len(timers) : TimerExpire(id)
    \/ \E id \in 1..Len(timers) : FlushDrain(id)
    \/ \E id \in 1..Len(timers), services \in ServiceSets : FlushRefresh(id, services)
    \/ Tick

SpecRefresher == InitRefresher /\ [][NextRefresher]_vars

\* C24: whenever the pending list is not empty and no thread is inside
\* refresh() or _flush_queue(), a debounce timer is armed (it waits, or its
\* thread is about to call _flush_queue), for every configured delay, so that
\* every queued item is eventually handed to a flush.
C24_QueuedItemsFlushed ==
    (/\ _pending_items # <<>>
     /\ ~refreshing.active
     /\ \A id \in 1..Len(timers) : timers[id].state # "flushing")
    => \E id \in 1..Len(timers) : timers[id].state \in {"waiting", "calling"}

\* C31: handling a media file under a rule whose template holds neither
\* {local_file} nor {cloud_file} (format_content returns None) reports nothing
\* created, creates no pointer file and leaves the files of the pointer tree
\* as they are, so that a later run with a corrected template still creates
\* the pointer.
C31_NoPointerForUnusableTemplate ==
    [][(/\ ncalls' = ncalls + 1
        /\ last'.media
        /\ format_content(conf.rule.format_str, last'.event_path, last'.cloud_file,
                          conf.uriencode) = None)
       => (/\ ~last'.created
           /\ disk' = disk
           /\ (~last'.existed => StrmFilePath(last'.target_file) \notin DOMAIN disk'))]_vars

(***************************************************************************)
(* Lkwang88 / CloudStrmCompanionLkwang88: init_plugin and stop_service     *)
(* next to the monitor-start threads they have launched.  Here mpc is the  *)
(* list of these threads, _observer the list of the plugin (indices into   *)
(* mlog.observers, every observer ever made), and every root exists.       *)
(***************************************************************************)
MaxLifecycleCalls == 3

LifecycleConfs == {<<"/s#/p#/c#f">>, <<"/s#/p#/c#f", "/m#/mp#/c#f">>}

\* observer.stop() and join() for every listed observer that is alive
StopListed(observers, listed) ==
    [k \in 1..Len(observers) |->
        IF \E j \in 1..Len(listed) : listed[j] = k
        THEN [observers[k] EXCEPT !.alive = FALSE] ELSE observers[k]]

\* stop_service, called by the host
PluginStop ==
    /\ mlog.calls < MaxLifecycleCalls
    /\ mlog' = [mlog EXCEPT !.calls = @ + 1, !.stops = @ + 1,
                            !.observers = StopListed(@, _observer)]
    /\ _observer' = <<>>
    /\ UNCHANGED <<monitor_confs, _strm_dir_conf, mpc, mounted>>
    /\ UNCHANGED monOthers

\* init_plugin: stop_service, then with the plugin enabled the rule lines are
\* loaded and, monitoring being on, a thread is started on the monitor-start
\* method
PluginInit(enabled) ==
    /\ mlog.calls < MaxLifecycleCalls
    /\ mlog' = [mlog EXCEPT !.calls = @ + 1, !.stops = @ + 1,
                            !.observers = StopListed(@, _observer)]
    /\ _observer' = <<>>
    /\ _strm_dir_conf' = IF enabled THEN LoadRules(monitor_confs, <<>>) ELSE <<>>
    /\ mpc' = IF enabled
              THEN Append(mpc, [pc |-> "sleep", i |-> 0, roots |-> <<>>,
                                launched |-> mlog.stops + 1])
              ELSE mpc
    /\ UNCHANGED <<monitor_confs, mounted>>
    /\ UNCHANGED monOthers

\* time.sleep() returns and the for loop takes the keys of the rule map
MonitorWake(t) ==
    /\ mpc[t].pc = "sleep"
    /\ mpc' = [mpc EXCEPT ![t].pc = IF _strm_dir_conf = <<>> THEN "done" ELSE "start",
                          ![t].i = 1,
                          ![t].roots = [k \in 1..Len(_strm_dir_conf) |->
                                           _strm_dir_conf[k].local_dir]]
    /\ UNCHANGED <<monitor_confs, _strm_dir_conf, mounted, _observer, mlog>>
    /\ UNCHANGED monOthers

\* one pass of the loop for a root that exists: the observer is created,
\* appended to self._observer, scheduled and started
MonitorObserve(t) ==
    /\ mpc[t].pc = "start"
    /\ mlog' = [mlog EXCEPT !.observers =
                   Append(@, [root |-> mpc[t].roots[mpc[t].i], alive |-> TRUE,
                              launched |-> mpc[t].launched, started |-> mlog.stops])]
    /\ _observer' = Append(_observer, Len(mlog.observers) + 1)
    /\ mpc' = [mpc EXCEPT ![t].pc = IF mpc[t].i = Len(mpc[t].roots) THEN "done" ELSE "start",
                          ![t].i = @ + 1]
    /\ UNCHANGED <<monitor_confs, _strm_dir_conf, mounted>>
    /\ UNCHANGED monOthers

InitLifecycle ==
    /\ monitor_confs \in LifecycleConfs
    /\ _strm_dir_conf = <<>>
    /\ mpc = <<>>
    /\ mounted = MonitorRoots
    /\ _observer = <<>>
    /\ mlog = [calls |-> 0, stops |-> 0, observers |-> <<>>]
    /\ MergeIdle
    /\ SyncIdle
    /\ DebounceIdle
    /\ WebhookIdle
    /\ ThreadsIdle
    /\ SweepIdle
    /\ AutoIdle

NextLifecycle ==
    \/ PluginStop
    \/ \E enabled \in BOOLEAN : PluginInit(enabled)
    \/ \E t \in 1..Len(mpc) : MonitorWake(t)
    \/ \E t \in 1..Len(mpc) : MonitorObserve(t)

SpecLifecycle == InitLifecycle /\ [][NextLifecycle]_vars

\* the observers that are running
Watching == {k \in 1..Len(mlog.observers) : mlog.observers[k].alive}

\* C32: after a stop_service no observer runs that a monitor-start thread
\* launched before that stop has started, and so at most one observer watches
\* a source root at any time.
C32_NoWatcherSurvivesStop ==
    /\ \A k \in Watching : mlog.observers[k].launched = mlog.stops
    /\ \A k \in Watching : \A j \in Watching :
          mlog.observers[k].root = mlog.observers[j].root => k = j

(***************************************************************************)
(* mediaserverrefresh88 / mediaserverrefresh: stop_service next to the     *)
(* timers of refresh()                                                     *)
(***************************************************************************)

\* stop_service: _stop_timer(), then the pending list is cleared under the
\* lock
StopRefresher ==
    /\ _lock = Free
    /\ timers' = stop_timer(timers, _timer)
    /\ _timer' = NoTimer
    /\ _pending_items' = <<>>
    /\ UNCHANGED <<dnow, _delay, _lock, refreshing, lastFlush, requests>>
    /\ UNCHANGED debOthers

NextShutdown ==
    \/ \E dir \in TargetDirs : RefreshAppend(dir)
    \/ RefreshRestart
    \/ \E id \in 1..Len(timers) : TimerExpire(id)
    \/ \E id \in 1..Len(timers) : FlushDrain(id)
    \/ \E id \in 1..Len(timers), services \in ServiceSets, raise_at \in 0..1 :
            FlushSend(id, services, raise_at)
    \/ Tick
    \/ StopRefresher

SpecShutdown == InitDebounce /\ [][NextShutdown]_vars

\* C33: when stop_service returns the pending list is empty, no timer waits
\* for its delay, and no timer thread holds a batch of items taken before the
\* stop that it is going to hand to the media servers.
C33_NoRefreshAfterStop ==
    [][StopRefresher
       => (/\ _pending_items' = <<>>
           /\ \A id \in 1..Len(timers') :
                 timers'[id].state \notin {"waiting", "flushing"})]_vars

(***************************************************************************)
(* Lkwang88: what the watcher (event_handler) and the full scan (scan)     *)
(* hand to __handle_file.  Here mounted is the set of paths that exist     *)
(* under the root and mlog the paths each mode has forwarded.              *)
(***************************************************************************)
MaxScans == 2

FilterRoot == "/s"

\* files that can appear under the root
FilterFiles ==
    {"/s/A/a.mkv", "/s/@Recycle/a.mkv", "/s/#recycle/a.mkv", "/s/.h/a.mkv", "/s/A/.a.mkv",
     "/s/@eaDir/a.mkv", "/s/A/extrafanart/f.jpg", "/s/A/extrafanart.jpg",
     "/s/A/a.fuse_hidden1.mkv"}

\* directories that can appear under the root
FilterDirs == {"/s/B", "/s/A/extrafanart"}

\* a directory of the path below the root has the name: os.walk does not
\* enter a directory removed from dirs
BelowDir(path, name) ==
    LET parts == Parts(From(path, Len(FilterRoot) + 1))
    IN  \E i \in 1..(Len(parts) - 1) : parts[i] = name

\* scan, lines 261-271: whether the walk hands the file to __handle_file
ScanForwards(source_file) ==
    /\ ~BelowDir(source_file, "extrafanart")
    /\ ~Contains(source_file, "/@Recycle")
    /\ ~Contains(source_file, "/#recycle")
    /\ ~Contains(source_file, "/.")
    /\ ~Contains(source_file, "/@eaDir")

\* event_handler, lines 293-297
EventForwards(is_directory, event_path) ==
    ~is_directory /\ ~Contains(event_path, ".fuse_hidden")

\* on_created / on_moved of the observer for a path that has appeared
FileEvent(event_path, text) ==
    /\ event_path \notin mounted
    /\ mounted' = mounted \cup {event_path}
    /\ mlog' = [mlog EXCEPT !.live =
                   IF EventForwards(event_path \in FilterDirs, event_path)
                   THEN @ \cup {event_path} ELSE @]
    /\ UNCHANGED <<monitor_confs, _strm_dir_conf, mpc, _observer>>
    /\ UNCHANGED monOthers

\* scan over the root
ScanRoot ==
    /\ mlog.scans < MaxScans
    /\ mlog' = [mlog EXCEPT !.scans = @ + 1,
                            !.scanned = {f \in mounted \cap FilterFiles : ScanForwards(f)}]
    /\ UNCHANGED <<monitor_confs, _strm_dir_conf, mpc, mounted, _observer>>
    /\ UNCHANGED monOthers

InitFilter ==
    /\ monitor_confs = <<"/s#/p#/c#f">>
    /\ _strm_dir_conf = LoadRules(monitor_confs, <<>>)
    /\ mpc = [pc |-> "done", i |-> 1, retries |-> NoInt]
    /\ mounted = {}
    /\ _observer = <<[root |-> FilterRoot, alive |-> TRUE]>>
    /\ mlog = [live |-> {}, scanned |-> {}, scans |-> 0]
    /\ MergeIdle
    /\ SyncIdle
    /\ DebounceIdle
    /\ WebhookIdle
    /\ ThreadsIdle
    /\ SweepIdle
    /\ AutoIdle

NextFilter ==
    \/ \E event_path \in FilterFiles \cup FilterDirs, text \in {"created", "moved"} :
          FileEvent(event_path, text)
    \/ ScanRoot

SpecFilter == InitFilter /\ [][NextFilter]_vars

\* C34: a full scan forwards exactly the paths that the creation and move
\* events of the same files have forwarded; paths with a recycle-bin, dotfile
\* or temp marker and files under an "extrafanart" directory are forwarded in
\* neither mode.
C34_SameExclusionFilters ==
    [][mlog'.scans = mlog.scans + 1
       => (/\ mlog'.scanned = mlog.live
           /\ \A f \in mounted :
                 (\/ Contains(f, "/@Recycle") \/ Contains(f, "/#recycle")
                  \/ Contains(f, "/.") \/ Contains(f, "/@eaDir")
                  \/ Contains(f, ".fuse_hidden") \/ BelowDir(f, "extrafanart"))
                 => f \notin mlog'.scanned \cup mlog.live)]_vars

(***************************************************************************)
(* mediaserverrefresh88._convert_path and __get_path of Lkwang88 /         *)
(* CloudStrmCompanionLkwang88 on bounded inputs.  Here mergeIn is the      *)
(* input (the mapping in configuration order and the path) and mergeOut    *)
(* the pair of results.                                                    *)
(***************************************************************************)
MaxRewriteRules == 2

RewriteSources == {"/lib", "/lib/a", "/library"}
RewriteTargets == {"/data", "/e"}
RewritePaths == {"/lib/a/x.mkv", "/lib/a/lib/b.mkv", "/library/x.mkv", "/mnt/x.mkv"}

\* the dicts _path_mapping / _emby_paths of at most MaxRewriteRules keys, as
\* the list of their items
RewriteMappings ==
    {m \in UNION {[1..n -> RewriteSources \X RewriteTargets] : n \in 0..MaxRewriteRules} :
        \A i, j \in 1..Len(m) : m[i][1] = m[j][1] => i = j}

\* __get_path(paths, file_path)
RECURSIVE get_path(_, _)
get_path(paths, file_path) ==
    IF paths = <<>> THEN file_path
    ELSE IF StartsWith(file_path, paths[1][1])
    THEN Replace(file_path, paths[1][1], paths[1][2])
    ELSE get_path(Tail(paths), file_path)

Rewrite ==
    /\ mergeOut = <<>>
    /\ mergeOut' = <<convert_path_from(mergeIn.path, mergeIn.mapping),
                     get_path(mergeIn.mapping, mergeIn.path)>>
    /\ UNCHANGED <<mergeIn, mergeOthers>>

InitRewrite ==
    /\ mergeIn \in [mapping : RewriteMappings, path : RewritePaths]
    /\ mergeOut = <<>>
    /\ SyncIdle
    /\ DebounceIdle
    /\ WebhookIdle
    /\ ThreadsIdle
    /\ MonitorIdle
    /\ SweepIdle
    /\ AutoIdle

NextRewrite == Rewrite

SpecRewrite == InitRewrite /\ [][NextRewrite]_vars

\* the rules whose source is a prefix of the path
Matching == {i \in 1..Len(mergeIn.mapping) : StartsWith(mergeIn.path, mergeIn.mapping[i][1])}

\* the path with the leading source of the first matching rule replaced
Rewritten ==
    IF Matching = {} THEN mergeIn.path
    ELSE LET i == CHOOSE k \in Matching : \A j \in Matching : k <= j
         IN  mergeIn.mapping[i][2] \o From(mergeIn.path, Len(mergeIn.mapping[i][1]) + 1)

\* C35: the rewrite uses the first rule in configuration order whose source
\* is a prefix of the path, replaces only that leading prefix by the rule's
\* target, and returns a path that matches no rule unchanged.
C35_PathPrefixRewrite ==
    mergeOut # <<>> => (mergeOut[1] = Rewritten /\ mergeOut[2] = Rewritten)

(***************************************************************************)
(* wd99._merge_continuous_episodes with its dict of lists kept in arrival  *)
(* order, as the first loop builds it                                      *)
(***************************************************************************)

\* season_episodes after the loop of lines 618-633: for each season seen the
\* list of its episodes in the order of the events
RECURSIVE season_episodes(_, _)
season_episodes(events, dict) ==
    IF events = <<>> THEN dict
    ELSE LET s == events[1].season
             e == events[1].episode
         IN  IF s = NoInt \/ e = NoInt THEN season_episodes(Tail(events), dict)
             ELSE season_episodes(Tail(events),
                     [k \in DOMAIN dict \cup {s} |->
                         IF k = s THEN Append(IF s \in DOMAIN dict THEN dict[s] ELSE <<>>, e)
                         ELSE dict[k]])

\* a slip: the episodes of a season are taken as they arrived
ArrivalOrder(list) == list

\* sorted(list(set(season_episodes[s]))), line 637
SortedEpisodes(list) == SortedSeq({list[i] : i \in 1..Len(list)})

\* lines 635-653 on the dict
merge_seasons(dict) ==
    LET seasons == SortedSeq(DOMAIN dict)
        eps(s) == SortedEpisodes(dict[s])
    IN  Join(", ", [k \in 1..Len(seasons) |->
                      "S" \o Zfill2(seasons[k]) \o " "
                      \o Join(" ", ScanRanges(eps(seasons[k]), 2, eps(seasons[k])[1],
                                              eps(seasons[k])[1], <<>>))])

merge_in_order(events) == merge_seasons(season_episodes(events, <<>>))

\* the lists that hold the events of a list in another order
Reorderings(events) ==
    {[i \in 1..Len(events) |-> events[p[i]]] : p \in Permutations(1..Len(events))}

RECURSIVE Reversed(_)
Reversed(events) ==
    IF events = <<>> THEN <<>> ELSE Append(Reversed(Tail(events)), events[1])

\* the text of seasons in ascending order, each with its episodes in
\* ascending order
ExpectedText(events) ==
    LET seasons == SortedSeq(SeasonKeys(events))
    IN  Join(", ", [k \in 1..Len(seasons) |->
                      ExpectedSeasonText(seasons[k], SeasonEpisodes(events, seasons[k]))])

\* C36: the merged text of a list of events is the same for every order of
\* the list (every permutation of a list of at most MaxMergeLen events, the
\* reverse of a longer one) and for the list with its events repeated, and it
\* names the seasons in ascending order and the episodes of a season in
\* ascending order.
C36_MergeOrderIndependent ==
    mergeOut # None =>
        /\ merge_in_order(mergeIn) = mergeOut
        /\ Len(mergeIn) <= MaxMergeLen
              => \A events \in Reorderings(mergeIn) : merge_in_order(events) = mergeOut
        /\ merge_in_order(Reversed(mergeIn)) = mergeOut
        /\ merge_in_order(mergeIn \o mergeIn) = mergeOut
        /\ merge_in_order(mergeIn \o Reversed(mergeIn)) = mergeOut
        /\ mergeOut = ExpectedText(mergeIn)

\* two seasons out of order with a repeated event
C36_Witness ==
    /\ mergeIn = <<MergeEvent(2, 3), MergeEvent(1, 1), MergeEvent(2, 3)>>
    /\ mergeOut = "S01 E01, S02 E03"

(***************************************************************************)
(* Lkwang88 / CloudStrmCompanionLkwang88: the rule lines init_plugin loads *)
(***************************************************************************)

\* lines of the form source#pointer#upstream#template, with and without the
\* $ and @ suffixes, lines with fewer and with more separators, a comment
LoadLines ==
    {"/s#/p#/c#f", "/s#/p2#/c#f", "/m#/mp#/c#f@tv$1", "/s#/p", "/m#/mp#/c#a#b", "/x",
     "#/m#/mp#/c#f"}

LoadSeqs == UNION {[1..n -> LoadLines] : n \in 1..MaxRuleLines}

InitLoad ==
    /\ monitor_confs \in LoadSeqs
    /\ _strm_dir_conf = <<>>
    /\ mpc = [pc |-> "loading", i |-> 0, retries |-> NoInt]
    /\ mounted = {}
    /\ _observer = <<>>
    /\ mlog = [skipped |-> {}, scanned |-> {}, up |-> {}, down |-> MonitorRoots]
    /\ MergeIdle
    /\ SyncIdle
    /\ DebounceIdle
    /\ WebhookIdle
    /\ ThreadsIdle
    /\ SweepIdle
    /\ AutoIdle

NextLoad == InitPlugin

SpecLoad == InitLoad /\ [][NextLoad]_vars

\* the line has the form source#pointer#upstream#template
WellFormed(monitor_conf) ==
    /\ monitor_conf # ""
    /\ ~StartsWith(monitor_conf, "#")
    /\ Count(RuleBody(monitor_conf), "#") = 3

\* the well-formed lines of the configuration, by position
ValidLines == {i \in 1..Len(monitor_confs) : WellFormed(monitor_confs[i])}

FieldsOf(i) == Split(RuleBody(monitor_confs[i]), "#", "")

\* C37: a rule line that has not exactly three '#' separators is skipped
\* and every well-formed line of the same configuration is loaded: after the
\* load the rule map holds exactly the sources of the well-formed lines, each
\* with the pointer root of the last well-formed line that names it.
C37_MalformedRulesSkipped ==
    mpc.pc # "loading"
    => /\ Keys(_strm_dir_conf) = {FieldsOf(i)[1] : i \in ValidLines}
       /\ \A k \in 1..Len(_strm_dir_conf) :
             \E i \in ValidLines :
                /\ FieldsOf(i)[1] = _strm_dir_conf[k].local_dir
                /\ FieldsOf(i)[2] = _strm_dir_conf[k].strm_dir
                /\ \A j \in ValidLines : FieldsOf(j)[1] = FieldsOf(i)[1] => j <= i

\* a malformed line before a well-formed one with suffixes
C37_Witness ==
    /\ mpc.pc # "loading"
    /\ monitor_confs = <<"/m#/mp#/c#a#b", "/m#/mp#/c#f@tv$1">>
    /\ Len(_strm_dir_conf) = 1
    /\ _strm_dir_conf[1] = [local_dir |-> "/m", strm_dir |-> "/mp"]

\* ------------------------------------------------------------------
\* autoclean: the refresher with TMDB dedup (smart refresh).  refresh() is
\* the handler of TransferComplete; it holds no lock, so the handlers of two
\* events interleave between the membership test of should_refresh, the add
\* to the set, and the refresh call after the delay.
MaxAutoEvents == 3
MaxAutoThreads == 2
MaxTmdb == 2

\* the two type texts should_refresh compares with (film, series), and a
\* type that equals neither
Movie == "movie"
TV == "tv"
OtherType == "other"

AutoThreads == 1..MaxAutoThreads
AutoModes == {"all", "first", "last"}
AutoConfigs ==
    [enabled : BOOLEAN, mediaservers : {0, 1}, smart_refresh : BOOLEAN,
     tv_refresh_mode : AutoModes]

\* season and episode of an event; 0 is None
AutoEpisodes == {<<0, 0>>, <<1, 1>>, <<1, 2>>, <<2, 1>>}
\* mediainfo of an event; tmdb_id 0 is None; path is whether transferinfo
\* carries target_diritem.path
AutoMedia ==
    {[type |-> ty, tmdb_id |-> id, season |-> se[1], episode |-> se[2], path |-> TRUE] :
        ty \in {Movie, TV, OtherType}, id \in 0..MaxTmdb, se \in AutoEpisodes}
    \cup {[type |-> TV, tmdb_id |-> 1, season |-> 1, episode |-> 1, path |-> FALSE]}
NoMedia == [type |-> None, tmdb_id |-> 0, season |-> 0, episode |-> 0, path |-> FALSE]

\* what a branch of should_refresh does: add the id to the set, and the
\* value it returns
Verdict(add, refresh) == [add |-> add, refresh |-> refresh]

\* tv_refresh_mode "first"
first_episode(mediainfo) ==
    IF mediainfo.season # 0 /\ mediainfo.episode # 0
    THEN IF mediainfo.season = 1 /\ mediainfo.episode = 1
         THEN Verdict(TRUE, TRUE)
         ELSE Verdict(FALSE, FALSE)
    ELSE Verdict(TRUE, TRUE)

\* a trigger that waits for the final episode of the series
final_episode(mediainfo) ==
    IF mediainfo.season = 2 THEN Verdict(TRUE, TRUE) ELSE Verdict(FALSE, FALSE)
\* tv_refresh_mode "last"
last_episode(mediainfo) == Verdict(TRUE, TRUE)

should_refresh(config, ids, mediainfo) ==
    IF ~config.smart_refresh THEN Verdict(FALSE, TRUE)
    ELSE IF mediainfo.tmdb_id = 0 THEN Verdict(FALSE, TRUE)
    ELSE IF mediainfo.tmdb_id \in ids THEN Verdict(FALSE, FALSE)
    ELSE IF mediainfo.type = Movie THEN Verdict(TRUE, TRUE)
    ELSE IF mediainfo.type = TV /\ config.tv_refresh_mode = "all" THEN Verdict(FALSE, TRUE)
    ELSE IF mediainfo.type = TV /\ config.tv_refresh_mode = "first" THEN first_episode(mediainfo)
    ELSE IF mediainfo.type = TV /\ config.tv_refresh_mode = "last" THEN last_episode(mediainfo)
    ELSE Verdict(FALSE, TRUE)

\* the event passes the early returns of refresh() and reaches should_refresh
Reaches(config, mediainfo) ==
    config.enabled /\ config.mediaservers > 0 /\ mediainfo.path

\* a handler: where it is, the TMDB id of the event it holds, and whether
\* the event arrived after the last init_plugin
AutoThreadIdle == [pc |-> "idle", tmdb_id |-> 0, fresh |-> FALSE]
NoCalls == [id \in 0..MaxTmdb |-> 0]

\* init_plugin: reads the configuration and empties the set; the handlers
\* in flight go on with the event they hold
AutoInit(config) ==
    /\ aconf' = config
    /\ _refreshed_tmdb_ids' = {}
    /\ apc' = [t \in AutoThreads |-> [apc[t] EXCEPT !.fresh = FALSE]]
    /\ alog' = [alog EXCEPT !.calls = NoCalls]
    /\ UNCHANGED <<mergeVars, syncVars, debVars, webVars, thrVars, monVars, sweepVars>>

\* refresh(event), from its start to the membership test of should_refresh
AutoEvent(t, mediainfo) ==
    /\ alog.events < MaxAutoEvents
    /\ apc[t].pc = "idle"
    /\ LET reaches == Reaches(aconf, mediainfo)
           verdict == should_refresh(aconf, _refreshed_tmdb_ids, mediainfo)
           going == reaches /\ verdict.refresh
       IN /\ apc' = [apc EXCEPT ![t] =
                        IF going
                        THEN [pc |-> IF verdict.add THEN "add" ELSE "refresh",
                              tmdb_id |-> mediainfo.tmdb_id, fresh |-> TRUE]
                        ELSE AutoThreadIdle]
          /\ alog' = [alog EXCEPT
                        !.events = @ + 1,
                        !.seen = IF reaches /\ mediainfo.tmdb_id # 0
                                 THEN @ \cup {mediainfo.tmdb_id} ELSE @,
                        !.last = [mediainfo |-> mediainfo, reached |-> reaches,
                                  refresh |-> going]]
    /\ UNCHANGED <<aconf, _refreshed_tmdb_ids>>
    /\ UNCHANGED <<mergeVars, syncVars, debVars, webVars, thrVars, monVars, sweepVars>>

\* self._refreshed_tmdb_ids.add(tmdb_id); return True
AutoAdd(t) ==
    /\ apc[t].pc = "add"
    /\ _refreshed_tmdb_ids' = _refreshed_tmdb_ids \cup {apc[t].tmdb_id}
    /\ apc' = [apc EXCEPT ![t].pc = "refresh"]
    /\ UNCHANGED <<aconf, alog>>
    /\ UNCHANGED <<mergeVars, syncVars, debVars, webVars, thrVars, monVars, sweepVars>>

\* the delay is over: the refresh call to the media server
AutoRefresh(t) ==
    /\ apc[t].pc = "refresh"
    /\ alog' = [alog EXCEPT !.calls[apc[t].tmdb_id] =
                                IF apc[t].fresh THEN @ + 1 ELSE @]
    /\ apc' = [apc EXCEPT ![t] = AutoThreadIdle]
    /\ UNCHANGED <<aconf, _refreshed_tmdb_ids>>
    /\ UNCHANGED <<mergeVars, syncVars, debVars, webVars, thrVars, monVars, sweepVars>>

\* the class attributes, before the first init_plugin
InitSmart ==
    /\ MergeIdle
    /\ SyncIdle
    /\ DebounceIdle
    /\ WebhookIdle
    /\ ThreadsIdle
    /\ MonitorIdle
    /\ SweepIdle
    /\ aconf = [enabled |-> FALSE, mediaservers |-> 0, smart_refresh |-> TRUE,
                tv_refresh_mode |-> "last"]
    /\ _refreshed_tmdb_ids = {}
    /\ apc = [t \in AutoThreads |-> AutoThreadIdle]
    /\ alog = [events |-> 0, seen |-> {}, calls |-> NoCalls,
               last |-> [mediainfo |-> NoMedia, reached |-> FALSE, refresh |-> FALSE]]

NextSmart ==
    \/ \E config \in AutoConfigs : AutoInit(config)
    \/ \E t \in AutoThreads, mediainfo \in AutoMedia : AutoEvent(t, mediainfo)
    \/ \E t \in AutoThreads : AutoAdd(t)
    \/ \E t \in AutoThreads : AutoRefresh(t)

SpecSmart == InitSmart /\ [][NextSmart]_vars

\* C38: with smart refresh on, no TMDB id gets a second refresh call from
\* the events that arrived since the last init_plugin.
C38_TmdbDedupRefresh ==
    aconf.smart_refresh => \A id \in 1..MaxTmdb : alog.calls[id] <= 1

\* the step is refresh() handling a TV event that reaches should_refresh in
\* mode "last" with smart refresh on, the first event seen for its TMDB id
FirstLastEvent ==
    /\ alog'.events = alog.events + 1
    /\ alog'.last.reached
    /\ aconf.smart_refresh
    /\ aconf.tv_refresh_mode = "last"
    /\ alog'.last.mediainfo.type = TV
    /\ alog'.last.mediainfo.tmdb_id # 0
    /\ alog'.last.mediainfo.tmdb_id \notin alog.seen

====
